---- MODULE Spec2Model ----
(***************************************************************************)
(* Arithmetic of univariate Ore operators (ore_operator.py): twisted       *)
(* multiplication, right division with remainder, GCRD/XGCRD by remainder  *)
(* sequences, LCLM/XLCLM by a ladder of shifted operators.                 *)
(*                                                                         *)
(* Base ring.  The operators' coefficients live in GF(P)[x] or in its      *)
(* fraction field GF(P)(x).  A polynomial is the sequence of its           *)
(* coefficients in 0..P-1, lowest degree first, without trailing zero; a   *)
(* base-ring element is a reduced fraction <<n, d>> with d monic (d = 1    *)
(* for an element of the polynomial ring).  The algebra is either          *)
(* differential (sigma = id, delta = d/dx) or shift (sigma(x) = x+1,       *)
(* delta = 0).                                                             *)
(*                                                                         *)
(* An operator is a record [co, fld]: co is the coefficient sequence       *)
(* c0, c1, ... (no trailing zero; <<>> is the zero operator) and fld says  *)
(* whether the base ring of its parent algebra is a field.                 *)
(*                                                                         *)
(* A value that the source binds to a local name and then uses several     *)
(* times is passed here as an argument of a helper operator (its name ends *)
(* in the step it continues) instead of being bound by LET.                *)
(***************************************************************************)
EXTENDS Integers, Sequences, FiniteSets, TLC

\* characteristic of the coefficient field of the base ring
P == 3

\* bounds of the model
MaxSize == 4
MaxExp == 3
MaxShared == 3

VARIABLES
  alg,     \* the Ore algebra descriptor: [kind, field]
  call,    \* the operation called last ("none" before the first call)
  self,    \* its receiver
  other,   \* its argument
  ret,     \* what it returned: [err, val], val the tuple of returned operators
  pc,      \* "idle", "loop" in a remainder sequence, "ladder", "done"
  ladder,  \* the locals of the lclm ladder: A, B the numerators of the
           \* operands, t the order tried, rowsA and rowsB the shifted
           \* operators, sol the Solver's answer, climbs the empty answers
  sym,     \* the locals of symmetric_product, symmetric_power and
           \* annihilator_of_associate: A, B the operands over the fraction
           \* field, Dkuv the table, mat the rows accumulated, sol the
           \* Solver's answer, exp the exponent of symmetric_power, L and stack
           \* the power reached and the exponents still to reach, and the counts of pushes, of calls of
           \* symmetric_product and of calls of the Solver
  loop,    \* the locals of the loop: r the pair of the last two remainders,
           \* prs the strategy in use, additional its stack, a the cofactors
           \* <<a11, a12, a21, a22>> of xgcrd, steps the accepted division
           \* steps, fails the steps reported as not correct, asked the
           \* strategy the caller named ("default" if none)
  frames   \* two calls of gcrd / xgcrd running at once on self and other:
           \* heap the lists allocated (a list is named by its index), call
           \* the pair of the locals of the two calls, each with name, asked,
           \* pc, r, prs, additional (the index of its list), a, steps,
           \* fails and ret

Max(a, b) == IF a >= b THEN a ELSE b

\* the function f on 1..n as a tuple
Tup(f) == f \o <<>>

(***************************************************************************)
(* GF(P)[x]                                                                *)
(***************************************************************************)
Inv(c) == CHOOSE d \in 1..(P - 1) : (c * d) % P = 1

RECURSIVE SeqSum(_)
SeqSum(s) == IF s = <<>> THEN 0 ELSE s[1] + SeqSum(Tail(s))

RECURSIVE PTrim(_)
PTrim(s) ==
  IF s = <<>> THEN <<>>
  ELSE IF s[Len(s)] = 0 THEN PTrim(SubSeq(s, 1, Len(s) - 1)) ELSE s

PCoef(p, i) == IF i >= 1 /\ i <= Len(p) THEN p[i] ELSE 0

PAdd(p, q) ==
  PTrim(Tup([i \in 1..Max(Len(p), Len(q)) |-> (PCoef(p, i) + PCoef(q, i)) % P]))

PNeg(p) == Tup([i \in 1..Len(p) |-> (P - p[i]) % P])

PSub(p, q) == PAdd(p, PNeg(q))

PScale(c, p) == PTrim(Tup([i \in 1..Len(p) |-> (c * p[i]) % P]))

PMul(p, q) ==
  IF p = <<>> \/ q = <<>> THEN <<>>
  ELSE Tup([k \in 1..(Len(p) + Len(q) - 1) |->
              SeqSum(Tup([i \in 1..Len(p) |-> p[i] * PCoef(q, k + 1 - i)])) % P])

\* c * x^d
PMono(c, d) ==
  IF c % P = 0 THEN <<>>
  ELSE Tup([i \in 1..(d + 1) |-> IF i = d + 1 THEN c % P ELSE 0])

\* Euclidean division in GF(P)[x], b nonzero: <<quotient, remainder>>
RECURSIVE PDivModLoop(_, _, _)
RECURSIVE PDivModStep(_, _, _, _)
PDivModLoop(a, b, q) ==
  IF Len(a) < Len(b) THEN <<q, a>>
  ELSE PDivModStep(a, b, q, PMono(a[Len(a)] * Inv(b[Len(b)]), Len(a) - Len(b)))
PDivModStep(a, b, q, m) == PDivModLoop(PSub(a, PMul(m, b)), b, PAdd(q, m))

PQuo(a, b) == PDivModLoop(a, b, <<>>)[1]
PRem(a, b) == PDivModLoop(a, b, <<>>)[2]

PMonic(p) == IF p = <<>> THEN <<>> ELSE PScale(Inv(p[Len(p)]), p)

\* monic greatest common divisor
RECURSIVE PGcd(_, _)
PGcd(a, b) == IF b = <<>> THEN PMonic(a) ELSE PGcd(b, PRem(a, b))

\* p(x + c)
RECURSIVE PShiftBy(_, _)
PShiftBy(p, c) ==
  IF p = <<>> THEN <<>>
  ELSE PAdd(PTrim(<<p[1]>>), PMul(PTrim(<<c % P, 1>>), PShiftBy(Tail(p), c)))

\* dp/dx
PDeriv(p) ==
  IF p = <<>> THEN <<>>
  ELSE PTrim(Tup([i \in 1..(Len(p) - 1) |-> (i * p[i + 1]) % P]))

(***************************************************************************)
(* GF(P)(x): reduced fractions                                             *)
(***************************************************************************)
Zero == << <<>>, <<1>> >>
One == << <<1>>, <<1>> >>

\* n/d with the denominator made monic
FrMonic(n, d) == << PScale(Inv(d[Len(d)]), n), PScale(Inv(d[Len(d)]), d) >>
\* n/d with the common factor g cancelled
FrCancel(n, d, g) == FrMonic(PQuo(n, g), PQuo(d, g))
\* the reduced fraction n/d, d nonzero
Fr(n, d) ==
  IF n = <<>> THEN Zero
  ELSE IF d = <<1>> THEN <<n, d>>
  ELSE FrCancel(n, d, PGcd(n, d))

FOfPoly(p) == <<p, <<1>> >>
FIsZero(a) == a[1] = <<>>
FIsOne(a) == a = One
FAdd(a, b) == Fr(PAdd(PMul(a[1], b[2]), PMul(b[1], a[2])), PMul(a[2], b[2]))
FNeg(a) == << PNeg(a[1]), a[2] >>
FSub(a, b) == FAdd(a, FNeg(b))
FMul(a, b) == Fr(PMul(a[1], b[1]), PMul(a[2], b[2]))
\* x / y: true division, y nonzero
FDiv(a, b) == Fr(PMul(a[1], b[2]), PMul(a[2], b[1]))
\* x // y, y nonzero: the Euclidean quotient in the polynomial ring, true
\* division in the fraction field
FFloorDiv(a, b, fld) ==
  Fr(PMul(IF fld THEN a[1] ELSE PQuo(a[1], b[1]), IF fld THEN b[2] ELSE <<1>>),
     IF fld THEN PMul(a[2], b[1]) ELSE <<1>>)

(***************************************************************************)
(* The algebra descriptor's maps                                           *)
(***************************************************************************)
\* sigma^n of a base-ring element (n may be negative)
sigma(a, n) ==
  IF alg.kind = "shift"
    THEN << PShiftBy(a[1], n % P), PShiftBy(a[2], n % P) >>
    ELSE a

\* the sigma-derivation
delta(a) ==
  IF alg.kind = "diff"
    THEN Fr(PSub(PMul(PDeriv(a[1]), a[2]), PMul(a[1], PDeriv(a[2]))),
            PMul(a[2], a[2]))
    ELSE Zero

\* sigma.factorial(a, n) = a * sigma(a) * ... * sigma^(n-1)(a)
RECURSIVE factorial(_, _)
factorial(a, n) ==
  IF n <= 0 THEN One ELSE FMul(factorial(a, n - 1), sigma(a, n - 1))

(***************************************************************************)
(* Coefficient sequences (the associated commutative polynomials)          *)
(***************************************************************************)
RECURSIVE CTrim(_)
CTrim(u) ==
  IF u = <<>> THEN <<>>
  ELSE IF FIsZero(u[Len(u)]) THEN CTrim(SubSeq(u, 1, Len(u) - 1)) ELSE u

CCoef(u, i) == IF i >= 1 /\ i <= Len(u) THEN u[i] ELSE Zero
CAdd(u, v) ==
  CTrim(Tup([i \in 1..Max(Len(u), Len(v)) |-> FAdd(CCoef(u, i), CCoef(v, i))]))
CNeg(u) == Tup([i \in 1..Len(u) |-> FNeg(u[i])])
CSub(u, v) == CAdd(u, CNeg(v))
\* c * u, c a base-ring element
CScale(c, u) == CTrim(Tup([i \in 1..Len(u) |-> FMul(c, u[i])]))
\* u * D in the commutative algebra
CTimesD(u) == IF u = <<>> THEN <<>> ELSE <<Zero>> \o u
\* c * D^d
CMono(c, d) ==
  IF FIsZero(c) THEN <<>>
  ELSE Tup([i \in 1..(d + 1) |-> IF i = d + 1 THEN c ELSE Zero])

(***************************************************************************)
(* Operators                                                               *)
(***************************************************************************)
Op(u, f) == [co |-> u, fld |-> f]
is_zero(A) == A.co = <<>>
order(A) == Len(A.co) - 1
leading_coefficient(A) == A.co[Len(A.co)]
zero(f) == Op(<<>>, f)
one(f) == Op(<<One>>, f)
\* equality of operators, after coercion to a common algebra
\* the generator of the algebra
Gen(f) == Op(<<Zero, One>>, f)

OEq(A, B) == A.co = B.co

_add_(A, B) == Op(CAdd(A.co, B.co), A.fld \/ B.fld)
_neg_(A) == Op(CNeg(A.co), A.fld)
_sub_(A, B) == Op(CSub(A.co, B.co), A.fld \/ B.fld)

\* GenTimes without the delta term
GenTimes_nodelta(DiB) == CTimesD(Tup([k \in 1..Len(DiB) |-> sigma(DiB[k], 1)]))

\* DiB.map_coefficients(sigma)*D + DiB.map_coefficients(delta)
GenTimes(DiB) ==
  CAdd(CTimesD(Tup([k \in 1..Len(DiB) |-> sigma(DiB[k], 1)])),
       CTrim(Tup([k \in 1..Len(DiB) |-> delta(DiB[k])])))

\* the loop of _mul_, entered for index i with DiB = D^(i-2) * B; sig and del
\* count the applications of sigma and of delta to the running operator
RECURSIVE MulLoop(_, _, _, _, _, _)
RECURSIVE MulBody(_, _, _, _, _, _)
MulLoop(coeffs, i, DiB, res, sig, del) ==
  IF i > Len(coeffs) THEN [val |-> res, sig |-> sig, del |-> del]
  ELSE MulBody(coeffs, i, GenTimes(DiB), res, sig + 1, del + 1)
\* res += coeffs[i]*DiB, with the new DiB
MulBody(coeffs, i, DiB, res, sig, del) ==
  MulLoop(coeffs, i + 1, DiB, CAdd(res, CScale(coeffs[i], DiB)), sig, del)

MulRun(A, B) ==
  IF is_zero(A) THEN [val |-> A.co, sig |-> 0, del |-> 0]
  ELSE IF is_zero(B) THEN [val |-> B.co, sig |-> 0, del |-> 0]
  ELSE MulLoop(A.co, 2, B.co, CScale(A.co[1], B.co), 0, 0)

_mul_(A, B) == Op(MulRun(A, B).val, A.fld \/ B.fld)

(***************************************************************************)
(* Division with remainder                                                 *)
(***************************************************************************)
\* op(p.leading_coefficient(), qlcs[orddiff]): x//y while the division is
\* fraction free and both elements are polynomials, x/y otherwise
LeadQuo(p, q, qlcs, exact) ==
  FFloorDiv(leading_coefficient(p), qlcs[order(p) - order(q) + 1],
            exact \/ p.fld \/ q.fld)

\* the while loop of quo_rem; exact says that op is true division
RECURSIVE QuoRemLoop(_, _, _, _, _, _, _, _, _)
RECURSIVE QuoRemStep(_, _, _, _, _, _, _, _, _, _)
RECURSIVE QuoRemNext(_, _, _, _, _, _, _, _, _, _)
QuoRemLoop(slf, oth, Rfld, qlcs, p, q, quo, exact, restarts) ==
  IF order(p) - order(q) < 0
    THEN [err |-> "none", val |-> <<quo, p>>, restarts |-> restarts]
    ELSE QuoRemStep(slf, oth, Rfld, qlcs, p, q, quo, exact, restarts,
                    Op(CMono(LeadQuo(p, q, qlcs, exact), order(p) - order(q)),
                       Rfld \/ exact \/ p.fld \/ q.fld))
\* QuoRemStep with quo = cfquo in place of quo = quo+cfquo
QuoRemStep_noacc(slf, oth, Rfld, qlcs, p, q, quo, exact, restarts, cfquo) ==
  QuoRemNext(slf, oth, Rfld, qlcs, p, q, cfquo, exact, restarts,
             _sub_(p, _mul_(cfquo, q)))
\* quo = quo+cfquo; p = p - cfquo*q
QuoRemStep(slf, oth, Rfld, qlcs, p, q, quo, exact, restarts, cfquo) ==
  QuoRemNext(slf, oth, Rfld, qlcs, p, q, _add_(quo, cfquo), exact, restarts,
             _sub_(p, _mul_(cfquo, q)))
\* if p.order()==currentOrder: start again from self and other with x/y
QuoRemNext(slf, oth, Rfld, qlcs, p, q, quo, exact, restarts, p2) ==
  IF order(p2) = order(p)
    THEN QuoRemLoop(slf, oth, Rfld, qlcs, slf, oth, quo, TRUE, restarts + 1)
    ELSE QuoRemLoop(slf, oth, Rfld, qlcs, p2, q, quo, exact, restarts)

\* R(p), R(q) and the sigma-shifted leading coefficients of q
QuoRemStart(slf, oth, toFrac, fractionFree) ==
  QuoRemLoop(slf, oth, slf.fld \/ toFrac,
             Tup([i \in 1..(order(slf) - order(oth) + 1) |->
                    sigma(leading_coefficient(oth), i - 1)]),
             Op(slf.co, slf.fld \/ toFrac), Op(oth.co, oth.fld \/ toFrac),
             zero(slf.fld \/ toFrac), ~fractionFree, 0)

\* quo_rem that compares the orders (with <=) before it tests other for zero
quo_rem_ordfirst(slf, oth, fractionFree) ==
  IF order(slf) <= order(oth)
    THEN [err |-> "none", val |-> <<zero(slf.fld), slf>>, restarts |-> 0]
  ELSE IF is_zero(oth) THEN [err |-> "ZeroDivisionError", val |-> <<>>, restarts |-> 0]
  ELSE QuoRemStart(slf, oth, ~fractionFree /\ ~slf.fld, fractionFree)

quo_rem(slf, oth, fractionFree) ==
  IF is_zero(oth) THEN [err |-> "ZeroDivisionError", val |-> <<>>, restarts |-> 0]
  ELSE IF order(slf) < order(oth)
    THEN [err |-> "none", val |-> <<zero(slf.fld), slf>>, restarts |-> 0]
  ELSE QuoRemStart(slf, oth, ~fractionFree /\ ~slf.fld, fractionFree)

\* DivOf that returns the quotient whatever the remainder
DivOf_norem(qr) ==
  IF qr.err # "none" THEN [err |-> qr.err, val |-> <<>>]
  ELSE [err |-> "none", val |-> <<qr.val[1]>>]

\* the quotient if the remainder is zero, an error otherwise
DivOf(qr) ==
  IF qr.err # "none" THEN [err |-> qr.err, val |-> <<>>]
  ELSE IF is_zero(qr.val[2]) THEN [err |-> "none", val |-> <<qr.val[1]>>]
  ELSE [err |-> "ValueError", val |-> <<>>]

\* exact right division
__div__(slf, right) == DivOf(quo_rem(slf, right, FALSE))

\* component i of the pair quo_rem returned
PartOf(qr, i) ==
  IF qr.err # "none" THEN [err |-> qr.err, val |-> <<>>]
  ELSE [err |-> "none", val |-> <<qr.val[i]>>]

__floordiv__(slf, right) == PartOf(quo_rem(slf, right, FALSE), 1)
__mod__(slf, oth) == PartOf(quo_rem(slf, oth, FALSE), 2)

(***************************************************************************)
(* Content and primitive part                                              *)
(***************************************************************************)
\* a base-ring element v together with its parent: fld says that the parent
\* is the fraction field
Sc(v, f) == [v |-> v, fld |-> f]

\* the coefficients of the monomials appearing in A (the nonzero ones)
coefficients(A) == SelectSeq(A.co, LAMBDA c : ~FIsZero(c))

\* sum(R(m*i+k)*coeffs[i]) over the polynomials coeffs, i counted from 0
RECURSIVE LinComb(_, _, _, _)
LinComb(coeffs, i, m, k) ==
  IF i > Len(coeffs) THEN <<>>
  ELSE PAdd(PScale((m * (i - 1) + k) % P, coeffs[i][1]), LinComb(coeffs, i + 1, m, k))

\* gcd(coeffs) of a list of polynomials
RECURSIVE GcdList(_, _)
GcdList(coeffs, i) ==
  IF i > Len(coeffs) THEN <<>> ELSE PGcd(coeffs[i][1], GcdList(coeffs, i + 1))

\* the operands above this number of terms take the shortcut of content
ShortcutTerms == 30

\* the number of nonzero terms of the polynomials coeffs
RECURSIVE Terms(_, _)
Terms(coeffs, i) ==
  IF i > Len(coeffs) THEN 0
  ELSE Cardinality({k \in 1..Len(coeffs[i][1]) : coeffs[i][1][k] # 0}) + Terms(coeffs, i + 1)

\* coeffs.sort(key = lambda p: p.degree()), the degree of 0 being -1
Degree(c) == Len(c[1]) - 1
RECURSIVE InsertByDegree(_, _)
InsertByDegree(s, c) ==
  IF s = <<>> THEN <<c>>
  ELSE IF Degree(Head(s)) <= Degree(c) THEN <<Head(s)>> \o InsertByDegree(Tail(s), c)
  ELSE <<c>> \o s
RECURSIVE SortByDegree(_)
SortByDegree(s) ==
  IF s = <<>> THEN <<>>
  ELSE InsertByDegree(SortByDegree(SubSeq(s, 1, Len(s) - 1)), s[Len(s)])

\* the steps of content that the base ring may fail to carry out
ContentSteps == {"sum", "pair", "sort", "gcd"}

\* a content that gives up on any failure
ContentUnder_unit(coeffs, proof, fails) ==
  IF Len(coeffs) = 1 THEN coeffs[1]
  ELSE IF fails # {} THEN One
  ELSE FOfPoly(GcdList(coeffs, 1))

\* the content once c, the gcd of the two linear combinations, is known
ContentWith(coeffs, proof, fails, c) ==
  IF ~proof /\ ~FIsZero(c) /\ Terms(coeffs, 1) > ShortcutTerms THEN c
  ELSE IF fails \cap {"sort", "gcd"} # {} THEN One
  ELSE FOfPoly(GcdList(SortByDegree(Append(coeffs, c)), 1))

\* content over a polynomial ring: the gcd of the nonzero coefficients and of
\* c, the gcd of two linear combinations of them; fails are the steps that
\* raise an error in the base ring
ContentUnder(coeffs, proof, fails) ==
  IF Len(coeffs) = 1 THEN coeffs[1]
  ELSE IF "sum" \in fails THEN One
  ELSE ContentWith(coeffs, proof, fails,
                   IF "pair" \in fails THEN Zero
                   ELSE FOfPoly(PGcd(LinComb(coeffs, 1, 2, 3), LinComb(coeffs, 1, 3, -1))))

ContentOf(coeffs) == ContentUnder(coeffs, TRUE, {})

\* content(proof) with the steps fails failing
contentUnder(A, proof, fails) ==
  IF is_zero(A) THEN Sc(One, A.fld)
  ELSE IF A.fld THEN Sc(leading_coefficient(A), TRUE)
  ELSE Sc(ContentUnder(coefficients(A), proof, fails), FALSE)

content(A) == contentUnder(A, TRUE, {})

\* A.map_coefficients(lambda p: p//c), converted back to the algebra of A:
\* [err, op]; a quotient outside A's base ring cannot be converted
Converted(co, f) ==
  IF ~f /\ \E i \in 1..Len(co) : co[i][2] # <<1>>
    THEN [err |-> "TypeError", op |-> zero(f)]
    ELSE [err |-> "none", op |-> Op(co, f)]
MapFloorDiv(A, c) ==
  Converted(CTrim(Tup([i \in 1..Len(A.co) |-> FFloorDiv(A.co[i], c.v, A.fld \/ c.fld)])),
            A.fld)

PrimitivePartBy(A, c) == IF FIsOne(c.v) THEN A ELSE MapFloorDiv(A, c).op
\* primitive_part(proof)
primitive_part_(A, proof) == PrimitivePartBy(A, contentUnder(A, proof, {}))
primitive_part(A) == PrimitivePartBy(A, content(A))

\* c * A for a base-ring element c
ScaleOp(c, A) == Op(CScale(c.v, A.co), c.fld \/ A.fld)

(***************************************************************************)
(* Remainder-sequence strategies: one division step                        *)
(* r is the pair <<r0, r1>>, additional the stack; the result is           *)
(* [err, r, q, alpha, beta, correct, additional]                           *)
(***************************************************************************)
\* a step that keeps r[0] in the pair instead of moving on to r[1]
PRSRet_keep(r, additional, q, alpha, beta, r2) ==
  [err |-> r2.err, r |-> <<r[1], r2.op>>, q |-> q, alpha |-> alpha,
   beta |-> beta, correct |-> TRUE, additional |-> additional]

PRSRet(r, additional, q, alpha, beta, r2) ==
  [err |-> r2.err, r |-> <<r[2], r2.op>>, q |-> q, alpha |-> alpha,
   beta |-> beta, correct |-> TRUE, additional |-> additional]

PRSFail(r, additional) ==
  [err |-> "none", r |-> r, q |-> zero(r[1].fld), alpha |-> Sc(Zero, r[1].fld),
   beta |-> Sc(Zero, r[1].fld), correct |-> FALSE, additional |-> additional]

PRSError(r, additional, e) ==
  [err |-> e, r |-> r, q |-> zero(r[1].fld), alpha |-> Sc(Zero, r[1].fld),
   beta |-> Sc(Zero, r[1].fld), correct |-> FALSE, additional |-> additional]

Plain(A) == [err |-> "none", op |-> A]

ClassicRet(r, additional, newRem) ==
  PRSRet(r, additional, newRem.val[1], Sc(One, r[1].fld), Sc(One, r[1].fld),
         Plain(newRem.val[2]))
__classicPRS__(r, additional) ==
  ClassicRet(r, additional, quo_rem(r[1], r[2], FALSE))

PrimitiveRet(r, additional, alpha, newRem, beta) ==
  PRSRet(r, additional, newRem.val[1], alpha, beta, MapFloorDiv(newRem.val[2], beta))
PrimitiveDiv(r, additional, alpha, newRem) ==
  PrimitiveRet(r, additional, alpha, newRem, content(newRem.val[2]))
PrimitiveAlpha(r, additional, alpha) ==
  PrimitiveDiv(r, additional, alpha, quo_rem(ScaleOp(alpha, r[1]), r[2], TRUE))
__primitivePRS__(r, additional) ==
  PrimitiveAlpha(r, additional,
    Sc(factorial(leading_coefficient(r[2]), order(r[1]) - order(r[2]) + 1), r[2].fld))

\* (-1)^n in the base ring
Sign(n) == IF n % 2 = 0 THEN One ELSE FNeg(One)

\* parent(v): conversion of the fraction v into the ring with field flag f
ConvertTo(v, f) == IF ~f /\ v[2] # <<1>> THEN "TypeError" ELSE "none"

\* the stack entry at depth i below the top (pop number i)
Popped(additional, i) == additional[Len(additional) + 1 - i]
\* a stack that is read but never popped
PopN_keep(additional, n) == additional

\* the stack after n pops
PopN(additional, n) == SubSeq(additional, 1, Len(additional) - n)

\* the first half of the improved step: [err, phi, essentialPart, beta, rest]
ImprovedBeta(r, additional, phi, beta) ==
  [err |-> ConvertTo(beta, Popped(additional, 2).fld),
   phi |-> phi,
   essentialPart |-> Sc(sigma(Popped(additional, 4).v, order(r[2]) - order(r[1])),
                        Popped(additional, 4).fld),
   beta |-> Sc(beta, Popped(additional, 2).fld),
   rest |-> PopN(additional, 5)]
ImprovedPhi(r, additional, phi) ==
  ImprovedBeta(r, additional, phi,
    FMul(FMul(Sign(order(r[1]) - order(r[2]) + 1),
              factorial(sigma(phi.v, 1), order(r[1]) - order(r[2]))),
         Popped(additional, 3).v))
ImprovedHead(r, additional) ==
  IF Len(additional) = 0
    THEN [err |-> "none",
          phi |-> Sc(One, r[1].fld),
          essentialPart |->
            Sc(FOfPoly(PGcd(sigma(leading_coefficient(r[1]),
                                  order(r[2]) - order(r[1]))[1],
                            leading_coefficient(r[2])[1])), r[1].fld),
          beta |-> Sc(FMul(Sign(order(r[1]) - order(r[2]) + 1),
                           factorial(sigma(One, 1), order(r[1]) - order(r[2]))),
                      r[1].fld),
          rest |-> <<>>]
    ELSE ImprovedPhi(r, additional,
           Sc(FDiv(Popped(additional, 2).v,
                   factorial(sigma(Popped(additional, 5).v, 1),
                             Popped(additional, 1) - order(r[2]) - 1)), TRUE))

ImprovedRet(r, h, k, alpha, alpha2, newRem) ==
  PRSRet(r, h.rest \o <<h.phi, h.essentialPart, k, alpha, order(r[2])>>,
         newRem.val[1], alpha2, h.beta, MapFloorDiv(newRem.val[2], h.beta))
ImprovedDiv(r, h, k, alpha, alpha2) ==
  ImprovedRet(r, h, k, alpha, alpha2, quo_rem(ScaleOp(alpha2, r[1]), r[2], TRUE))
ImprovedAlpha(r, h, k, alpha) ==
  ImprovedDiv(r, h, k, alpha,
              Sc(FMul(alpha.v, sigma(k.v, order(r[1]) - order(r[2]))), k.fld))
ImprovedK(r, h, k) ==
  IF FIsZero(k.v) THEN PRSFail(r, h.rest)
  ELSE ImprovedAlpha(r, h, k, Sc(factorial(k.v, order(r[1]) - order(r[2])), k.fld))
ImprovedTail(r, h) ==
  IF h.err # "none" THEN PRSError(r, h.rest, h.err)
  ELSE ImprovedK(r, h, Sc(FFloorDiv(leading_coefficient(r[2]), h.essentialPart.v,
                                    r[2].fld \/ h.essentialPart.fld),
                          r[2].fld \/ h.essentialPart.fld))
__improvedPRS__(r, additional) == ImprovedTail(r, ImprovedHead(r, additional))

\* the first half of the subresultant step: [phi, beta, rest]
SubresultantPhi(r, additional, phi) ==
  [phi |-> phi,
   beta |-> Sc(FMul(FMul(FNeg(One),
                         factorial(sigma(phi.v, 1), order(r[1]) - order(r[2]))),
                    leading_coefficient(r[1])), TRUE),
   rest |-> PopN(additional, 2)]
SubresultantHead(r, additional) ==
  IF Len(additional) = 0
    THEN [phi |-> Sc(FNeg(One), r[1].fld),
          beta |-> Sc(FMul(FNeg(One),
                           factorial(sigma(FNeg(One), 1), order(r[1]) - order(r[2]))),
                      r[1].fld),
          rest |-> <<>>]
    ELSE SubresultantPhi(r, additional,
           Sc(FDiv(factorial(FNeg(leading_coefficient(r[1])), order(r[1]) - order(r[2])),
                   factorial(sigma(Popped(additional, 2).v, 1),
                             order(r[1]) - order(r[2]) - 1)), TRUE))

SubresultantRet(r, h, alpha, newRem) ==
  PRSRet(r, h.rest \o <<h.phi, order(r[2])>>, newRem.val[1], alpha, h.beta,
         MapFloorDiv(newRem.val[2], h.beta))
SubresultantDiv(r, h, alpha) ==
  SubresultantRet(r, h, alpha, quo_rem(ScaleOp(alpha, r[1]), r[2], TRUE))
SubresultantTail(r, h) ==
  SubresultantDiv(r, h,
    Sc(factorial(leading_coefficient(r[2]), order(r[1]) - order(r[2]) + 1), r[2].fld))
__subresultantPRS__(r, additional) == SubresultantTail(r, SubresultantHead(r, additional))

\* the step of the strategy named prs
PRS(prs, r, additional) ==
  CASE prs = "classic" -> __classicPRS__(r, additional)
    [] prs = "primitive" -> __primitivePRS__(r, additional)
    [] prs = "improved" -> __improvedPRS__(r, additional)
    [] prs = "subresultant" -> __subresultantPRS__(r, additional)

(***************************************************************************)
(* The Solver: a basis of the null space of a matrix over GF(P)(x)         *)
(* A matrix is the sequence of its rows.  The basis is read off the        *)
(* reduced row echelon form, one vector per free column, each scaled to    *)
(* polynomial entries without a common factor.                             *)
(***************************************************************************)
RowScale(c, row) == Tup([j \in 1..Len(row) |-> FMul(c, row[j])])
RowSub(row, c, prow) == Tup([j \in 1..Len(row) |-> FSub(row[j], FMul(c, prow[j]))])

\* the first row from i on with a nonzero entry in column c, 0 if none
RECURSIVE FindPivot(_, _, _)
FindPivot(M, c, i) ==
  IF i > Len(M) THEN 0
  ELSE IF ~FIsZero(M[i][c]) THEN i ELSE FindPivot(M, c, i + 1)

\* rows i and k exchanged, row k scaled to a leading 1 in column c and
\* column c cleared in every other row
ClearColumn(M, c, k, prow) ==
  Tup([i \in 1..Len(M) |-> IF i = k THEN prow ELSE RowSub(M[i], M[i][c], prow)])
PivotOn(M, c, k) == ClearColumn(M, c, k, RowScale(FDiv(One, M[k][c]), M[k]))
Exchange(M, i, k) == [M EXCEPT ![i] = M[k], ![k] = M[i]]

\* the reduced row echelon form from column c on, pivs the pivot columns
\* found so far: [M, pivs]
RECURSIVE Echelon(_, _, _, _)
EchelonAt(M, ncols, c, pivs, i) ==
  IF i = 0 THEN Echelon(M, ncols, c + 1, pivs)
  ELSE Echelon(PivotOn(Exchange(M, i, Len(pivs) + 1), c, Len(pivs) + 1),
               ncols, c + 1, Append(pivs, c))
Echelon(M, ncols, c, pivs) ==
  IF c > ncols \/ Len(pivs) = Len(M) THEN [M |-> M, pivs |-> pivs]
  ELSE EchelonAt(M, ncols, c, pivs, FindPivot(M, c, Len(pivs) + 1))

\* the position of column j among the pivot columns, 0 if it is free
RECURSIVE PivotIndex(_, _, _)
PivotIndex(pivs, j, k) ==
  IF k > Len(pivs) THEN 0
  ELSE IF pivs[k] = j THEN k ELSE PivotIndex(pivs, j, k + 1)

\* the null-space vector of the free column f
EntryOf(e, f, j, k) ==
  IF j = f THEN One ELSE IF k = 0 THEN Zero ELSE FNeg(e.M[k][f])
KernelVector(e, ncols, f) ==
  Tup([j \in 1..ncols |-> EntryOf(e, f, j, PivotIndex(e.pivs, j, 1))])

\* the least common multiple of the denominators and the greatest common
\* divisor of the numerators of a vector
PLcm(a, b) == PQuo(PMul(a, b), PGcd(a, b))
RECURSIVE DenLcm(_, _)
DenLcm(v, i) == IF i > Len(v) THEN <<1>> ELSE PLcm(v[i][2], DenLcm(v, i + 1))
RECURSIVE NumGcd(_, _)
NumGcd(v, i) == IF i > Len(v) THEN <<>> ELSE PGcd(v[i][1], NumGcd(v, i + 1))

\* v scaled to polynomial entries without a common factor
Cleared(v, c) == RowScale(FOfPoly(c), v)
Reduced(v, g) == RowScale(Fr(<<1>>, g), v)
PrimitiveVector(v) == Reduced(Cleared(v, DenLcm(v, 1)), NumGcd(Cleared(v, DenLcm(v, 1)), 1))

\* the basis: the vectors of the free columns, in the order of the columns
RECURSIVE KernelBasis(_, _, _)
KernelBasis(e, ncols, f) ==
  IF f > ncols THEN <<>>
  ELSE (IF PivotIndex(e.pivs, f, 1) = 0
          THEN <<PrimitiveVector(KernelVector(e, ncols, f))>> ELSE <<>>)
         \o KernelBasis(e, ncols, f + 1)

Solver(sys, ncols) == KernelBasis(Echelon(sys, ncols, 1, <<>>), ncols, 1)

(***************************************************************************)
(* The operands of a call                                                  *)
(***************************************************************************)
\* the exponents offered to symmetric_power
Exponents == (-1)..MaxExp

Kinds == {"diff", "shift"}
Algebras == [kind : Kinds, field : BOOLEAN]

\* the polynomial with the binary digits of k as coefficients:
\* 0, 1, x, x+1, x^2, ...
RECURSIVE PolyOfNat(_)
PolyOfNat(k) == IF k = 0 THEN <<>> ELSE <<k % 2>> \o PolyOfNat(k \div 2)
RECURSIVE NatOfPoly(_)
NatOfPoly(p) == IF p = <<>> THEN 0 ELSE p[1] + 2 * NatOfPoly(Tail(p))

\* the size of a coefficient: the code of its numerator plus that of its
\* denominator, less one (so the code of a polynomial, and 2 for 1/x)
CoefSize(c) == NatOfPoly(c[1]) + NatOfPoly(c[2]) - 1

\* base-ring elements of size <= n offered as coefficients: the polynomials
\* coded 0..n and, over the fraction field, 1/x as well
Coefs(f, n) ==
  {FOfPoly(PolyOfNat(k)) : k \in 0..n}
    \cup (IF f /\ n >= 2 THEN {<< <<1>>, <<0, 1>> >>} ELSE {})

\* the coefficient sequences of length len and total size <= n
RECURSIVE CoSeqs(_, _, _)
CoSeqs(f, len, n) ==
  IF len = 0 THEN {<<>>}
  ELSE UNION {{<<c>> \o u : u \in CoSeqs(f, len - 1, n - CoefSize(c))} : c \in Coefs(f, n)}

\* the operators of the algebra of size <= MaxSize, the size of an operator
\* being its order plus the sizes of its coefficients
Operators(f) ==
  {Op(u, f) : u \in {v \in UNION {CoSeqs(f, len, MaxSize + 1 - len) : len \in 0..(MaxSize + 1)} :
                       v = <<>> \/ ~FIsZero(v[Len(v)])}}

vars == <<alg, call, self, other, ret, pc, loop, ladder, sym, frames>>

Init ==
  /\ alg \in Algebras
  /\ call = "none"
  /\ self = zero(alg.field)
  /\ other = zero(alg.field)
  /\ ret = [err |-> "none", val |-> <<>>]
  /\ pc = "idle"
  /\ loop = [r |-> <<zero(alg.field), zero(alg.field)>>, prs |-> "none",
             additional |-> <<>>, a |-> <<>>, steps |-> 0, fails |-> 0,
             asked |-> "none"]
  /\ ladder = [A |-> zero(FALSE), B |-> zero(FALSE), t |-> 0, rowsA |-> <<>>,
               rowsB |-> <<>>, sol |-> <<>>, climbs |-> 0]
  /\ sym = [A |-> zero(TRUE), B |-> zero(TRUE), Dkuv |-> <<>>, mat |-> <<>>,
            sol |-> <<>>, L |-> zero(TRUE), stack |-> <<>>, exp |-> 0,
            pushes |-> 0, products |-> 0, solves |-> 0]
  /\ frames = [heap |-> <<>>, call |-> <<>>]

\* the pair of results of // and %
DivModOf(q, r) ==
  IF q.err # "none" THEN q ELSE [err |-> "none", val |-> <<q.val[1], r.val[1]>>]

\* what _mul_ returned, with the counts of its run
MulRet(m, f) == [err |-> "none", val |-> <<Op(m.val, f)>>, sig |-> m.sig, del |-> m.del]

Mul ==
  /\ call = "none"
  /\ \E A \in Operators(alg.field), B \in Operators(alg.field) :
       /\ call' = "_mul_"
       /\ self' = A
       /\ other' = B
       /\ ret' = MulRet(MulRun(A, B), A.fld \/ B.fld)
  /\ UNCHANGED <<alg, pc, loop, ladder, sym, frames>>

QuoRem ==
  /\ call = "none"
  /\ \E A \in Operators(alg.field), B \in Operators(alg.field) :
       /\ call' = "quo_rem"
       /\ self' = A
       /\ other' = B
       /\ ret' = quo_rem(A, B, FALSE)
  /\ UNCHANGED <<alg, pc, loop, ladder, sym, frames>>

Div ==
  /\ call = "none"
  /\ \E A \in Operators(alg.field), B \in Operators(alg.field) :
       /\ call' = "__div__"
       /\ self' = A
       /\ other' = B
       /\ ret' = __div__(A, B)
  /\ UNCHANGED <<alg, pc, loop, ladder, sym, frames>>

FloorDivMod ==
  /\ call = "none"
  /\ \E A \in Operators(alg.field), B \in Operators(alg.field) :
       /\ call' = "divmod"
       /\ self' = A
       /\ other' = B
       /\ ret' = DivModOf(__floordiv__(A, B), __mod__(A, B))
  /\ UNCHANGED <<alg, pc, loop, ladder, sym, frames>>

\* the strategies a caller may name; "default" stands for prs=None.  The
\* improved strategy takes a gcd of leading coefficients and is offered over
\* the polynomial ring only.
Strategies(f) ==
  {"default", "classic", "primitive", "subresultant"}
    \cup (IF f THEN {} ELSE {"improved"})

\* a default that is classic over every base ring
DefaultPRS_classic(f) == "classic"

\* the strategy of a call that names none
DefaultPRS(f) == IF f THEN "classic" ELSE "improved"

\* the inputs for which gcrd and xgcrd return before the loop
Degenerate(A, B) == is_zero(A) \/ is_zero(B) \/ order(A) = 0 \/ order(B) = 0
\* a degenerate return that normalizes the operand it hands back
DegenerateRet_normalized(A, B) ==
  IF is_zero(A) THEN primitive_part(B)
  ELSE IF is_zero(B) THEN primitive_part(A) ELSE one(A.fld)

DegenerateRet(A, B) ==
  IF is_zero(A) THEN B ELSE IF is_zero(B) THEN A ELSE one(A.fld)

\* the call of gcrd or of xgcrd (name) up to the loop
EnterGcrd(name, A, B, p) ==
  /\ call' = name
  /\ self' = A
  /\ other' = B
  /\ IF Degenerate(A, B)
       THEN /\ ret' = [err |-> "none", val |-> <<DegenerateRet(A, B)>>]
            /\ pc' = "done"
            /\ UNCHANGED loop
       ELSE /\ loop' = [r |-> IF order(A) < order(B) THEN <<B, A>> ELSE <<A, B>>,
                        prs |-> IF p = "default" THEN DefaultPRS(A.fld) ELSE p,
                        additional |-> <<>>,
                        a |-> IF name = "xgcrd"
                                THEN <<one(TRUE), zero(TRUE), zero(TRUE), one(TRUE)>>
                                ELSE <<>>,
                        steps |-> 0, fails |-> 0, asked |-> p]
            /\ pc' = "loop"
            /\ UNCHANGED ret
  /\ UNCHANGED <<alg, ladder, sym, frames>>

Gcrd ==
  /\ call = "none"
  /\ \E A \in Operators(alg.field), B \in Operators(alg.field),
        p \in Strategies(alg.field) : EnterGcrd("gcrd", A, B, p)

Xgcrd ==
  /\ call = "none"
  /\ \E A \in Operators(alg.field), B \in Operators(alg.field),
        p \in Strategies(alg.field) : EnterGcrd("xgcrd", A, B, p)

\* bInv*(alpha*u - q*v)
Cofactor(st, u, v) ==
  ScaleOp(Sc(FDiv(One, st.beta.v), TRUE),
          _sub_(ScaleOp(st.alpha, u), _mul_(st.q, v)))

\* a turn that ignores a step that reported ok = false
Turn_nofallback(st) ==
  IF st.err # "none"
    THEN /\ ret' = [err |-> st.err, val |-> <<>>]
         /\ pc' = "done"
         /\ loop' = [loop EXCEPT !.additional = st.additional]
  ELSE IF ~st.correct
    THEN /\ loop' = [loop EXCEPT !.fails = @ + 1]
         /\ UNCHANGED <<ret, pc>>
  ELSE /\ loop' = [loop EXCEPT !.r = st.r, !.additional = st.additional,
                               !.steps = @ + 1]
       /\ UNCHANGED <<ret, pc>>

\* one turn of the loop with the step st the strategy returned
Turn(st) ==
  IF st.err # "none"
    THEN /\ ret' = [err |-> st.err, val |-> <<>>]
         /\ pc' = "done"
         /\ loop' = [loop EXCEPT !.additional = st.additional]
  ELSE IF ~st.correct
    THEN /\ loop' = [loop EXCEPT !.prs = "primitive",
                                 !.additional = st.additional,
                                 !.fails = @ + 1]
         /\ UNCHANGED <<ret, pc>>
  ELSE /\ loop' = [loop EXCEPT
                     !.r = st.r,
                     !.additional = st.additional,
                     !.a = IF call = "xgcrd"
                             THEN <<@[3], @[4]>>
                                    \o Tup([i \in 1..2 |-> Cofactor(st, @[i], @[i + 2])])
                             ELSE @,
                     !.steps = @ + 1]
       /\ UNCHANGED <<ret, pc>>

PRSStep ==
  /\ pc = "loop"
  /\ ~is_zero(loop.r[2])
  /\ Turn(PRS(loop.prs, loop.r, loop.additional))
  /\ UNCHANGED <<alg, call, self, other, ladder, sym, frames>>

\* a return that never takes the primitive part
Normalized_never(g) == g

\* a return that always takes the primitive part
Normalized_always(g) == primitive_part(g)

\* the result once the loop has ended
Normalized(g) == IF loop.prs # "classic" THEN primitive_part(g) ELSE g

Finish ==
  /\ pc = "loop"
  /\ is_zero(loop.r[2])
  /\ ret' = [err |-> "none",
             val |-> IF call = "xgcrd"
                       THEN <<Normalized(loop.r[1]), loop.a[1], loop.a[2]>>
                       ELSE <<Normalized(loop.r[1])>>]
  /\ pc' = "done"
  /\ UNCHANGED <<alg, call, self, other, loop, ladder, sym, frames>>

\* the least common multiple of the denominators of the coefficients
denominator(A) == IF ~A.fld THEN One ELSE FOfPoly(DenLcm(coefficients(A), 1))

\* denominator()*A, cast into the algebra over the polynomial ring
numerator(A) == IF ~A.fld THEN A ELSE Op(CScale(denominator(A), A.co), FALSE)

\* rows extended by n more shifted operators D*rows[-1]
RECURSIVE Shifted(_, _, _)
\* rows extended by one shifted operator, however many are asked for
Shifted_once(rows, n, f) ==
  IF n <= 0 THEN rows ELSE Append(rows, _mul_(Gen(f), rows[Len(rows)]))

Shifted(rows, n, f) ==
  IF n <= 0 THEN rows
  ELSE Shifted(Append(rows, _mul_(Gen(f), rows[Len(rows)])), n - 1, f)

\* Matrix(map(lambda p: p.coeffs(padd=t), rows)).transpose()
SysOf(rows, t) ==
  Tup([i \in 1..(t + 1) |-> Tup([j \in 1..Len(rows) |-> CCoef(rows[j].co, i)])])

\* the ladder at order t with the rows rowsA, rowsB
LadderAt(A, B, t, rowsA, rowsB, climbs) ==
  [A |-> A, B |-> B, t |-> t, rowsA |-> rowsA, rowsB |-> rowsB,
   sol |-> Solver(SysOf(rowsA \o rowsB, t), Len(rowsA) + Len(rowsB)),
   climbs |-> climbs]
\* a ladder that starts at the top, t = r + s
LadderStart_sum(A, B, t, f) ==
  LadderAt(A, B, order(A) + order(B), Shifted(<<A>>, order(B), f),
           Shifted(<<B>>, order(A), f), 0)

\* the ladder as lclm sets it up: t = max(r, s), A and B shifted up to order t
LadderStart(A, B, t, f) ==
  LadderAt(A, B, t, Shifted(<<A>>, t - order(A), f), Shifted(<<B>>, t - order(B), f), 0)

\* what lclm returns before the ladder
LclmDegenerate(A, B) == is_zero(A) \/ is_zero(B) \/ order(A) = 0 \/ order(B) = 0
\* a degenerate return that hands back the scalar operand
LclmDegenerateRet_scalar(A, B) ==
  IF is_zero(A) \/ is_zero(B) THEN zero(A.fld)
  ELSE IF order(A) = 0 THEN A ELSE B

LclmDegenerateRet(A, B) ==
  IF is_zero(A) \/ is_zero(B) THEN zero(A.fld)
  ELSE IF order(A) = 0 THEN B ELSE A

\* what the call name returns once lclm has found L: L itself, or the
\* triple (L, L0 // A, L0 // B) over the fraction field
Triple(L, U, V) ==
  IF U.err # "none" THEN U
  ELSE IF V.err # "none" THEN V
  ELSE [err |-> "none", val |-> <<L, U.val[1], V.val[1]>>]
LclmRet(name, L, A, B) ==
  IF name = "xlclm"
    THEN Triple(L, __floordiv__(Op(L.co, TRUE), Op(A.co, TRUE)),
                   __floordiv__(Op(L.co, TRUE), Op(B.co, TRUE)))
    ELSE [err |-> "none", val |-> <<L>>]

\* the call of lclm or of xlclm (name) up to the ladder
EnterLclm(name, A, B) ==
  /\ call' = name
  /\ self' = A
  /\ other' = B
  /\ IF LclmDegenerate(A, B)
       THEN /\ ret' = LclmRet(name, LclmDegenerateRet(A, B), A, B)
            /\ pc' = "done"
            /\ UNCHANGED ladder
       ELSE /\ ladder' = LadderStart(numerator(A), numerator(B),
                                     Max(order(A), order(B)), A.fld)
            /\ pc' = "ladder"
            /\ UNCHANGED ret
  /\ UNCHANGED <<alg, loop, sym, frames>>

Lclm ==
  /\ call = "none"
  /\ \E A \in Operators(alg.field), B \in Operators(alg.field) : EnterLclm("lclm", A, B)

Xlclm ==
  /\ call = "none"
  /\ \E A \in Operators(alg.field), B \in Operators(alg.field) : EnterLclm("xlclm", A, B)

\* an empty null space: one more shifted operator on either side
Climb ==
  /\ pc = "ladder"
  /\ Len(ladder.sol) = 0
  /\ ladder' = LadderAt(ladder.A, ladder.B, ladder.t + 1,
                        Shifted(ladder.rowsA, 1, self.fld),
                        Shifted(ladder.rowsB, 1, self.fld),
                        ladder.climbs + 1)
  /\ UNCHANGED <<alg, call, self, other, ret, pc, loop, sym, frames>>

\* U cut one entry short
CofactorU_short ==
  Op(CTrim(SubSeq(ladder.sol[1], 1, ladder.t - order(ladder.A))), FALSE)

\* U, the first t+1-r entries of the first vector of the basis
CofactorU ==
  Op(CTrim(SubSeq(ladder.sol[1], 1, ladder.t + 1 - order(ladder.A))), FALSE)

Descend ==
  /\ pc = "ladder"
  /\ Len(ladder.sol) > 0
  /\ ret' = LclmRet(call, Op(_mul_(CofactorU, ladder.A).co, self.fld), self, other)
  /\ pc' = "done"
  /\ UNCHANGED <<alg, call, self, other, loop, ladder, sym, frames>>

NextLclm == Lclm \/ Climb \/ Descend
SpecLclm == Init /\ [][NextLclm]_vars

NextXlclm == Xlclm \/ Climb \/ Descend
SpecXlclm == Init /\ [][NextXlclm]_vars

NextGcrd == Gcrd \/ PRSStep \/ Finish
SpecGcrd == Init /\ [][NextGcrd]_vars

NextXgcrd == Xgcrd \/ PRSStep \/ Finish
SpecXgcrd == Init /\ [][NextXgcrd]_vars

\* the driver loop under either call
NextPRS == Gcrd \/ Xgcrd \/ PRSStep \/ Finish
SpecPRS == Init /\ [][NextPRS]_vars

\* the loop condition holds: the call is in the loop with r[1] nonzero
LoopRuns == pc = "loop" /\ ~is_zero(loop.r[2])
\* the loop condition fails: the call is about to return
LoopEnded == pc = "loop" /\ is_zero(loop.r[2])
\* a step of the loop, recognised by what it leaves behind: a step counted,
\* a failure counted, or an error raised
Advance ==
  LoopRuns /\ (loop'.steps # loop.steps \/ loop'.fails # loop.fails \/ pc' = "done")
\* the return after the loop
Return == LoopEnded /\ pc' = "done"

\* the driver loop of gcrd as the interpreter runs it: a call that is in the loop
\* goes on to its next step, and a call whose loop has ended returns.  This
\* is weak fairness of PRSStep and of Finish; ENABLED <<PRSStep>>_vars is
\* LoopRuns and ENABLED <<Finish>>_vars is LoopEnded, and both are written
\* out.
FairGcrd ==
  /\ SpecGcrd
  /\ []<>(~LoopRuns) \/ []<><<Advance>>_vars
  /\ []<>(~LoopEnded) \/ []<><<Return>>_vars

(***************************************************************************)
(* Two calls of gcrd / xgcrd at once on shared operands                    *)
(***************************************************************************)
\* a list shared by all calls, as a default argument would be
NewList_default(heap) == 1

\* additional = []: the index of a list no other call holds
NewList(heap) == Len(heap) + 1

\* the heap with the list of index addr on it
Allocated(heap, addr) == IF addr > Len(heap) THEN Append(heap, <<>>) ELSE heap

\* the strategies that keep a stack, and primitive, the fallback
StackStrategies(f) == Strategies(f) \ {"default", "classic"}

\* the size of an operator: its order plus the sizes of its coefficients
RECURSIVE SizeOf(_, _)
SizeOf(co, i) == IF i > Len(co) THEN 0 ELSE CoefSize(co[i]) + SizeOf(co, i + 1)
Size(A) == order(A) + SizeOf(A.co, 1)

\* the operands two calls share: the operators of size <= MaxShared
SharedOperators(f) == {A \in Operators(f) : Size(A) <= MaxShared}

\* the locals of a call of gcrd or xgcrd (name) that has reached its loop,
\* additional being held at addr
EnterFrame(name, A, B, p, addr) ==
  [name |-> name, asked |-> p, pc |-> "loop",
   r |-> IF order(A) < order(B) THEN <<B, A>> ELSE <<A, B>>,
   prs |-> IF p = "default" THEN DefaultPRS(A.fld) ELSE p,
   additional |-> addr,
   a |-> IF name = "xgcrd" THEN <<one(TRUE), zero(TRUE), zero(TRUE), one(TRUE)>>
         ELSE <<>>,
   steps |-> 0, fails |-> 0, ret |-> [err |-> "none", val |-> <<>>]]

\* the locals after one turn of the loop with the step st
FrameTurn(fr, st) ==
  IF st.err # "none"
    THEN [fr EXCEPT !.pc = "done", !.ret = [err |-> st.err, val |-> <<>>]]
  ELSE IF ~st.correct
    THEN [fr EXCEPT !.prs = "primitive", !.fails = @ + 1]
  ELSE [fr EXCEPT !.r = st.r,
                  !.a = IF fr.name = "xgcrd"
                          THEN <<@[3], @[4]>>
                                 \o Tup([i \in 1..2 |-> Cofactor(st, @[i], @[i + 2])])
                          ELSE @,
                  !.steps = @ + 1]

\* the locals after the return
FrameResult(fr) == IF fr.prs # "classic" THEN primitive_part(fr.r[1]) ELSE fr.r[1]
FrameReturn(fr) ==
  [fr EXCEPT !.pc = "done",
             !.ret = [err |-> "none",
                      val |-> IF fr.name = "xgcrd"
                                THEN <<FrameResult(fr), fr.a[1], fr.a[2]>>
                                ELSE <<FrameResult(fr)>>]]

\* the heap with both lists allocated, the second after the first
HeapOfTwo(a1, a2) == Allocated(Allocated(<<>>, a1), a2)

\* two calls on the operands A and B, each with its own list
PairOf(A, B, n1, p1, n2, p2, a1) ==
  [heap |-> HeapOfTwo(a1, NewList(Allocated(<<>>, a1))),
   call |-> <<EnterFrame(n1, A, B, p1, a1),
              EnterFrame(n2, A, B, p2, NewList(Allocated(<<>>, a1)))>>]

SpawnPair ==
  /\ call = "none"
  /\ \E A \in SharedOperators(alg.field), B \in SharedOperators(alg.field),
        n1 \in {"gcrd"}, n2 \in {"xgcrd"},
        p1 \in StackStrategies(alg.field), p2 \in StackStrategies(alg.field) :
       /\ ~Degenerate(A, B)
       /\ call' = "pair"
       /\ self' = A
       /\ other' = B
       /\ frames' = PairOf(A, B, n1, p1, n2, p2, NewList(<<>>))
  /\ UNCHANGED <<alg, ret, pc, loop, ladder, sym>>

\* the frames after the step st of the call i: the strategy has popped and
\* pushed on the list the call holds
FramesAfter(i, st) ==
  [heap |-> [frames.heap EXCEPT ![frames.call[i].additional] = st.additional],
   call |-> [frames.call EXCEPT ![i] = FrameTurn(@, st)]]

\* one turn of the loop of the call i
StepFrame(i) ==
  /\ call = "pair"
  /\ frames.call[i].pc = "loop"
  /\ ~is_zero(frames.call[i].r[2])
  /\ frames' = FramesAfter(i, PRS(frames.call[i].prs, frames.call[i].r,
                                  frames.heap[frames.call[i].additional]))
  /\ UNCHANGED <<alg, call, self, other, ret, pc, loop, ladder, sym>>

\* the return of the call i
ReturnFrame(i) ==
  /\ call = "pair"
  /\ frames.call[i].pc = "loop"
  /\ is_zero(frames.call[i].r[2])
  /\ frames' = [frames EXCEPT !.call[i] = FrameReturn(@)]
  /\ UNCHANGED <<alg, call, self, other, ret, pc, loop, ladder, sym>>

NextPair ==
  SpawnPair \/ StepFrame(1) \/ StepFrame(2) \/ ReturnFrame(1) \/ ReturnFrame(2)
SpecPair == Init /\ [][NextPair]_vars

NextMul == Mul
SpecMul == Init /\ [][NextMul]_vars

NextDiv == QuoRem \/ Div \/ FloorDivMod
SpecDiv == Init /\ [][NextDiv]_vars

\* quo_rem(other, fractionFree=True), as the fraction-free strategies call it
QuoRemFractionFree ==
  /\ call = "none"
  /\ \E A \in Operators(alg.field), B \in Operators(alg.field) :
       /\ call' = "quo_rem_ff"
       /\ self' = A
       /\ other' = B
       /\ ret' = quo_rem(A, B, TRUE)
  /\ UNCHANGED <<alg, pc, loop, ladder, sym, frames>>

\* quo_rem in both of its modes
NextQuoRem == QuoRem \/ QuoRemFractionFree
SpecQuoRem == Init /\ [][NextQuoRem]_vars

(***************************************************************************)
(* Symmetric product                                                       *)
(***************************************************************************)
\* the product rule of the algebra:
\* gen(u*v) = pr[1]*u*v + pr[2]*(gen(u)*v + u*gen(v)) + pr[3]*gen(u)*gen(v)
_product_rule ==
  IF alg.kind = "diff" THEN <<Zero, One, Zero>> ELSE <<Zero, Zero, One>>

\* A(f) without an action given: the generator acts as the identity, and
\* the result is the sum of the A[i]*f
RECURSIVE CallSum(_, _, _)
CallSum(co, f, i) ==
  IF i > Len(co) THEN Zero ELSE FAdd(FMul(co[i], f), CallSum(co, f, i + 1))
__call__(A, f) == CallSum(A.co, f, 1)

\* A over the fraction field of its base ring
change_ring(A) == Op(A.co, TRUE)

\* a normal form that changes the sign instead
NormalizeBy_neg(num, c, f) == Op(CNeg(num.co), f)

\* num scaled by the inverse of the unit c: c is the leading coefficient of
\* num if that is a unit, the leading coefficient of that otherwise
NormalizeBy(num, c, f) ==
  Op(CScale(FOfPoly(<<Inv(c[1][Len(c[1])])>>), num.co), f)
normalize(A) ==
  IF is_zero(A) THEN A
  ELSE NormalizeBy(primitive_part_(numerator(A), FALSE),
                   leading_coefficient(primitive_part_(numerator(A), FALSE)), A.fld)

\* what a step of symmetric_product hands on: an error, a result (done) or
\* the operands of the general case
SymErr(e) == [err |-> e, done |-> TRUE, val |-> zero(TRUE), A |-> zero(TRUE), B |-> zero(TRUE)]
SymVal(L) == [err |-> "none", done |-> TRUE, val |-> L, A |-> zero(TRUE), B |-> zero(TRUE)]
SymTable(A, B) == [err |-> "none", done |-> FALSE, val |-> zero(TRUE), A |-> A, B |-> B]

\* the loop of the closed form, entered for the coefficient co[i] with
\* Dk = (p*D + q)^(i-2) and L the sum so far
RECURSIVE ClosedLoop(_, _, _, _, _)
ClosedNext(co, i, PQ, Dk, L) ==
  ClosedLoop(co, i + 1, PQ, Dk,
             IF FIsZero(co[i]) THEN L ELSE _add_(L, ScaleOp(Sc(co[i], TRUE), Dk)))
ClosedLoop(co, i, PQ, Dk, L) ==
  IF i > Len(co) THEN L ELSE ClosedNext(co, i, PQ, _mul_(PQ, Dk), L)

\* the closed form for B = D - h of order 1, g with (D - g)(1/u) = 0
ClosedWith(A, pr, g) ==
  SymVal(normalize(ClosedLoop(A.co, 2,
                              Op(CTrim(<<FAdd(pr[1], FMul(pr[2], g)),
                                         FAdd(pr[2], FMul(pr[3], g))>>), TRUE),
                              one(TRUE), Op(CTrim(<<A.co[1]>>), TRUE))))
ClosedForm(A, pr, D1, h) ==
  IF h = D1 THEN SymVal(A)
  ELSE IF FIsZero(FAdd(pr[2], FMul(pr[3], h))) THEN SymErr("ZeroDivisionError")
  ELSE ClosedWith(A, pr, FDiv(FSub(FSub(D1, pr[1]), FMul(pr[2], h)),
                              FAdd(pr[2], FMul(pr[3], h))))

\* symmetric_product up to the general case, A and B over the fraction field
ProductBody(A, B) ==
  IF order(B) = 1
    THEN ClosedForm(A, _product_rule, __call__(Gen(TRUE), One),
                    FNeg(FDiv(B.co[1], B.co[2])))
    ELSE SymTable(A, B)
ProductHead(A, B) ==
  IF is_zero(A) \/ is_zero(B) THEN SymVal(A)
  ELSE IF order(A) < 1 \/ order(B) < 1 THEN SymVal(one(TRUE))
  ELSE IF order(A) = 1 /\ order(B) > 1 THEN ProductBody(B, A)
  ELSE ProductBody(A, B)

\* -A[i]/A[a] for i < a
RedOf(A) ==
  Tup([i \in 1..order(A) |-> FNeg(FDiv(A.co[i], leading_coefficient(A)))])

\* the table of (a+1) x (b+1) zeros with Dkuv[0][0] = one
TableStart(a, b) ==
  Tup([i \in 1..(a + 1) |->
    Tup([j \in 1..(b + 1) |-> IF i = 1 /\ j = 1 THEN One ELSE Zero])])

\* a row that keeps the entries with i = a or j = b as well
TableRow_full(T, a, b) ==
  Tup([k \in 1..((a + 1) * (b + 1)) |-> T[((k - 1) \div (b + 1)) + 1][((k - 1) % (b + 1)) + 1]])

\* [Dkuv[i][j] for i in xrange(a) for j in xrange(b)]
TableRow(T, a, b) ==
  Tup([k \in 1..(a * b) |-> T[((k - 1) \div b) + 1][((k - 1) % b) + 1]])

\* the push of the entry (i, j), s = sigma of it
PushAt(T, i, j, s, pr) ==
  [T EXCEPT ![i + 1][j + 1] = FAdd(@, FMul(s, pr[3])),
            ![i][j + 1] = FAdd(@, FMul(s, pr[2])),
            ![i + 1][j] = FAdd(@, FMul(s, pr[2])),
            ![i][j] = FAdd(delta(@), FMul(s, pr[1]))]

\* the push, from the entry (a-1, b-1) down to (0, 0); k = i*b + j
RECURSIVE PushLoop(_, _, _, _)
PushLoop(T, k, b, pr) ==
  IF k < 0 THEN T
  ELSE PushLoop(PushAt(T, (k \div b) + 1, (k % b) + 1,
                       sigma(T[(k \div b) + 1][(k % b) + 1], 1), pr),
                k - 1, b, pr)

\* the entries Dkuv[i][b] eliminated by B, then the entries Dkuv[a][j] by A
ReduceB(T, Bred, b) ==
  Tup([i \in 1..Len(T) |->
    Tup([j \in 1..(b + 1) |->
      IF j = b + 1 THEN Zero ELSE FAdd(T[i][j], FMul(Bred[j], T[i][b + 1]))])])
ReduceA(T, Ared, a, b) ==
  Tup([i \in 1..(a + 1) |->
    Tup([j \in 1..(b + 1) |->
      IF j = b + 1 THEN T[i][j]
      ELSE IF i = a + 1 THEN Zero
      ELSE FAdd(T[i][j], FMul(Ared[i], T[a + 1][j]))])])

\* Matrix(mat).transpose(), n the length of the rows of mat
Transpose(mat, n) ==
  Tup([r \in 1..n |-> Tup([k \in 1..Len(mat) |-> mat[k][r]])])

\* the locals once the row of the table T has been appended and solved
SymSolved(s, T, mat) ==
  [s EXCEPT !.Dkuv = T, !.mat = mat,
            !.sol = Solver(Transpose(mat, Len(mat[1])), Len(mat)),
            !.solves = @ + 1]

\* the result L of a symmetric_product goes to the caller: to the call
\* itself, or to symmetric_power, which has the exponents rest to reach
Deliver(s, L, rest) ==
  IF call = "symmetric_power"
    THEN /\ sym' = [s EXCEPT !.L = L, !.stack = rest]
         /\ pc' = "power"
         /\ UNCHANGED ret
    ELSE /\ sym' = s
         /\ ret' = [err |-> "none", val |-> <<L>>]
         /\ pc' = "done"

\* symmetric_product entered with the outcome h of its head
BeginWith(s, h, rest) ==
  IF h.err # "none"
    THEN /\ sym' = [s EXCEPT !.stack = rest]
         /\ ret' = [err |-> h.err, val |-> <<>>]
         /\ pc' = "done"
  ELSE IF h.done THEN Deliver(s, h.val, rest)
  ELSE /\ sym' = SymSolved([s EXCEPT !.A = h.A, !.B = h.B, !.stack = rest, !.pushes = 0],
                           TableStart(order(h.A), order(h.B)),
                           <<TableRow(TableStart(order(h.A), order(h.B)),
                                      order(h.A), order(h.B))>>)
       /\ pc' = "table"
       /\ UNCHANGED ret
BeginProduct(A, B, rest) ==
  BeginWith([sym EXCEPT !.products = @ + 1],
            ProductHead(change_ring(A), change_ring(B)), rest)

SymmetricProduct ==
  /\ call = "none"
  /\ \E A \in Operators(alg.field), B \in Operators(alg.field) :
       /\ call' = "symmetric_product"
       /\ self' = A
       /\ other' = B
       /\ BeginWith([sym EXCEPT !.products = @ + 1],
                    ProductHead(change_ring(A), change_ring(B)), <<>>)
  /\ UNCHANGED <<alg, loop, ladder, frames>>

\* the table pushed and reduced
Pushed(s, a, b) ==
  ReduceA(ReduceB(PushLoop(s.Dkuv, a * b - 1, b, _product_rule), RedOf(s.B), b),
          RedOf(s.A), a, b)
PushedRow(s, T) ==
  SymSolved([s EXCEPT !.pushes = @ + 1], T,
            Append(s.mat, TableRow(T, order(s.A), order(s.B))))

\* no combination of the rows vanishes yet: push, reduce, solve
Push ==
  /\ pc = "table"
  /\ Len(sym.sol) = 0
  /\ sym' = PushedRow(sym, Pushed(sym, order(sym.A), order(sym.B)))
  /\ UNCHANGED <<alg, call, self, other, ret, pc, loop, ladder, frames>>

\* the first vector of the basis gives the operator
TableReturn ==
  /\ pc = "table"
  /\ Len(sym.sol) > 0
  /\ Deliver(sym, Op(CTrim(sym.sol[1]), TRUE), sym.stack)
  /\ UNCHANGED <<alg, call, self, other, loop, ladder, frames>>

NextSymProduct == SymmetricProduct \/ Push \/ TableReturn
SpecSymProduct == Init /\ [][NextSymProduct]_vars

(***************************************************************************)
(* Symmetric power                                                         *)
(***************************************************************************)
\* the exponents symmetric_power reaches after 1 on its way to exp
RECURSIVE Chain(_)
\* a chain that goes from 1 to exp in one product
Chain_skip(exp) == IF exp <= 1 THEN <<>> ELSE <<exp>>

Chain(exp) ==
  IF exp <= 1 THEN <<>>
  ELSE IF exp % 2 = 1 THEN Append(Chain(exp - 1), exp)
  ELSE Append(Chain(exp \div 2), exp)

\* D - R(D(R.one())), the annihilator of 1
AnnihilatorOfOne(f) == _sub_(Gen(f), Op(CTrim(<<__call__(Gen(f), One)>>), f))

\* a symmetric_power that takes every exponent below 1 for 0
PowerBase_nocheck(A, exp) == [err |-> "none", val |-> <<AnnihilatorOfOne(A.fld)>>]

\* symmetric_power for the exponents below 1
PowerBase(A, exp) ==
  IF exp < 0 THEN [err |-> "TypeError", val |-> <<>>]
  ELSE [err |-> "none", val |-> <<AnnihilatorOfOne(A.fld)>>]

SymmetricPower ==
  /\ call = "none"
  /\ \E A \in Operators(alg.field), exp \in Exponents :
       /\ call' = "symmetric_power"
       /\ self' = A
       /\ IF exp <= 0
            THEN /\ ret' = PowerBase(A, exp)
                 /\ pc' = "done"
                 /\ sym' = [sym EXCEPT !.exp = exp]
          ELSE /\ sym' = [sym EXCEPT !.exp = exp, !.L = A, !.stack = Chain(exp)]
               /\ pc' = "power"
               /\ UNCHANGED ret
  /\ UNCHANGED <<alg, other, loop, ladder, frames>>

\* the next exponent e of the chain: power(e - 1) times self for odd e,
\* power(e/2) squared for even e; the end of the chain returns
PowerStep ==
  /\ pc = "power"
  /\ IF sym.stack = <<>>
       THEN /\ ret' = [err |-> "none", val |-> <<sym.L>>]
            /\ pc' = "done"
            /\ UNCHANGED sym
       ELSE BeginProduct(sym.L, IF Head(sym.stack) % 2 = 1 THEN self ELSE sym.L,
                         Tail(sym.stack))
  /\ UNCHANGED <<alg, call, self, other, loop, ladder, frames>>

NextSymPower == SymmetricPower \/ PowerStep \/ Push \/ TableReturn
SpecSymPower == Init /\ [][NextSymPower]_vars

(***************************************************************************)
(* Annihilator of an associate                                             *)
(***************************************************************************)
\* a coefficient vector that is never padded
coeffs_nopad(B, padd) == B.co

\* B.coeffs(padd = a - 1)
coeffs(B, padd) ==
  IF Len(B.co) <= padd
    THEN B.co \o Tup([i \in 1..(padd + 1 - Len(B.co)) |-> Zero])
    ELSE B.co

\* the locals with the remainder B, its row appended and solved
AssocSolved(s, B, a) ==
  [SymSolved(s, <<>>, Append(s.mat, coeffs(B, a - 1))) EXCEPT !.B = B]

AnnihilatorOfAssociate ==
  /\ call = "none"
  /\ \E A \in Operators(alg.field), B \in Operators(alg.field) :
       /\ call' = "annihilator_of_associate"
       /\ self' = A
       /\ other' = B
       /\ IF is_zero(A) \/ is_zero(B)
            THEN /\ ret' = [err |-> "none",
                            val |-> <<IF is_zero(A) THEN A ELSE one(A.fld)>>]
                 /\ pc' = "done"
                 /\ UNCHANGED sym
            ELSE /\ sym' = AssocSolved([sym EXCEPT !.A = change_ring(A)],
                                       __mod__(change_ring(B), change_ring(A)).val[1],
                                       order(A))
                 /\ pc' = "assoc"
                 /\ UNCHANGED ret
  /\ UNCHANGED <<alg, loop, ladder, frames>>

\* the rows are independent: B = (D*B) % A, one more row
AssocStep ==
  /\ pc = "assoc"
  /\ Len(sym.sol) = 0
  /\ sym' = AssocSolved([sym EXCEPT !.pushes = @ + 1],
                        __mod__(_mul_(Gen(TRUE), sym.B), sym.A).val[1],
                        order(sym.A))
  /\ UNCHANGED <<alg, call, self, other, ret, pc, loop, ladder, frames>>

AssocReturn ==
  /\ pc = "assoc"
  /\ Len(sym.sol) > 0
  /\ ret' = [err |-> "none", val |-> <<Op(CTrim(sym.sol[1]), TRUE)>>]
  /\ pc' = "done"
  /\ UNCHANGED <<alg, call, self, other, loop, ladder, sym, frames>>

NextAssoc == AnnihilatorOfAssociate \/ AssocStep \/ AssocReturn
SpecAssoc == Init /\ [][NextAssoc]_vars

(***************************************************************************)
(* Indexed coefficients                                                    *)
(***************************************************************************)
\* the indices offered to op[n] and the values offered to op[n] = value
Indices == (-1)..(MaxSize + 1)
Values(f) == Coefs(f, 2)

\* op[n], the coefficient of gen^n
__getitem__(A, n) == CCoef(A.co, n + 1)

\* a write that stores the value
setitem_write(A, n, value) ==
  [err |-> "none",
   self |-> Op(CTrim(Tup([i \in 1..Max(Len(A.co), n + 1) |->
                            IF i = n + 1 THEN value ELSE CCoef(A.co, i)])), A.fld)]

\* op[n] = value: the error raised and the operator afterwards
__setitem__(A, n, value) == [err |-> "IndexError", self |-> A]

\* an operator of the algebra is made
New ==
  /\ call = "none"
  /\ \E A \in Operators(alg.field) :
       /\ call' = "__init__"
       /\ self' = A
  /\ pc' = "done"
  /\ UNCHANGED <<alg, other, ret, loop, ladder, sym, frames>>

GetItem ==
  /\ call # "none"
  /\ \E n \in Indices :
       /\ call' = "__getitem__"
       /\ other' = [n |-> n, value |-> Zero]
       /\ ret' = [err |-> "none", val |-> <<Sc(__getitem__(self, n), self.fld)>>]
  /\ UNCHANGED <<alg, self, pc, loop, ladder, sym, frames>>

SetItem ==
  /\ call # "none"
  /\ \E n \in Indices, value \in Values(alg.field) :
       /\ call' = "__setitem__"
       /\ other' = [n |-> n, value |-> value]
       /\ ret' = [err |-> __setitem__(self, n, value).err, val |-> <<>>]
       /\ self' = __setitem__(self, n, value).self
  /\ UNCHANGED <<alg, pc, loop, ladder, sym, frames>>

NextItem == New \/ GetItem \/ SetItem
SpecItem == Init /\ [][NextItem]_vars

(***************************************************************************)
(* Content, primitive part, normal form                                    *)
(***************************************************************************)
\* the operands of content, primitive_part and normalize: the left
\* multiples c*A of the operators of the algebra by 1, 2, x and 2x
Scalars == {FOfPoly(<<1>>), FOfPoly(<<2>>), FOfPoly(<<0, 1>>), FOfPoly(<<0, 2>>)}
Multiples(f) == {ScaleOp(Sc(c, f), A) : c \in Scalars, A \in Operators(f)}

Content ==
  /\ call = "none"
  /\ \E A \in Multiples(alg.field), proof \in BOOLEAN, fails \in SUBSET ContentSteps :
       /\ call' = "content"
       /\ self' = A
       /\ other' = [proof |-> proof, fails |-> fails]
       /\ ret' = [err |-> "none", val |-> <<contentUnder(A, proof, fails)>>]
  /\ pc' = "done"
  /\ UNCHANGED <<alg, loop, ladder, sym, frames>>

PrimitivePart ==
  /\ call = "none"
  /\ \E A \in Multiples(alg.field), proof \in BOOLEAN :
       /\ call' = "primitive_part"
       /\ self' = A
       /\ other' = [proof |-> proof, fails |-> {}]
       /\ ret' = [err |-> "none", val |-> <<primitive_part_(A, proof)>>]
  /\ pc' = "done"
  /\ UNCHANGED <<alg, loop, ladder, sym, frames>>

Normalize ==
  /\ call = "none"
  /\ \E A \in Multiples(alg.field) :
       /\ call' = "normalize"
       /\ self' = A
       /\ ret' = [err |-> "none", val |-> <<normalize(A)>>]
  /\ pc' = "done"
  /\ UNCHANGED <<alg, other, loop, ladder, sym, frames>>

NextNormal == Content \/ PrimitivePart \/ Normalize
SpecNormal == Init /\ [][NextNormal]_vars

(***************************************************************************)
(* Properties of the arithmetic                                            *)
(***************************************************************************)
\* Q*B + R == A and (R == 0 or order(R) < order(B))
DivisionIdentity(A, B, Q, R) ==
  /\ OEq(_add_(_mul_(Q, B), R), A)
  /\ is_zero(R) \/ order(R) < order(B)

\* C1: whenever quo_rem(A, B), B nonzero, returns (Q, R), Q*B + R == A and
\* R == 0 or order(R) < order(B); the same holds of (A // B, A % B).
C1_QuoRemIdentity ==
  (call \in {"quo_rem", "divmod"} /\ ~is_zero(other))
    => /\ ret.err = "none"
       /\ Len(ret.val) = 2
       /\ DivisionIdentity(self, other, ret.val[1], ret.val[2])

\* a division of several steps that leaves a nonzero remainder
C1_Witness ==
  /\ call = "quo_rem"
  /\ ret.err = "none"
  /\ order(other) >= 1
  /\ order(self) > order(other)
  /\ ~is_zero(ret.val[2])
  /\ alg.kind = "shift"

\* the sum over i of A[i]*(gen^i*B), gen^i*B obtained from gen^(i-1)*B by
\* sigma on every coefficient, shifted by one power, plus delta on every
\* coefficient
RECURSIVE GenPowTimes(_, _)
GenPowTimes(i, u) ==
  IF i = 0 THEN u
  ELSE CAdd(<<Zero>> \o Tup([k \in 1..Len(GenPowTimes(i - 1, u)) |->
                                sigma(GenPowTimes(i - 1, u)[k], 1)]),
            CTrim(Tup([k \in 1..Len(GenPowTimes(i - 1, u)) |->
                         delta(GenPowTimes(i - 1, u)[k])])))
RECURSIVE TwistedSum(_, _, _)
TwistedSum(a, u, i) ==
  IF i > Len(a) THEN <<>>
  ELSE CAdd(CScale(a[i], GenPowTimes(i - 1, u)), TwistedSum(a, u, i + 1))

\* C2: A*B is the sum over i of A[i]*(gen^i*B); gen*c = sigma(c)*gen + delta(c);
\* sigma and delta are each applied order(A) times; a zero operand gives the
\* zero operator with no application of sigma or delta.
C2_TwistedProduct ==
  call = "_mul_" =>
    /\ ret.err = "none"
    /\ (is_zero(self) \/ is_zero(other)) =>
         (is_zero(ret.val[1]) /\ ret.sig = 0 /\ ret.del = 0)
    /\ (~is_zero(self) /\ ~is_zero(other)) =>
         /\ ret.val[1].co = TwistedSum(self.co, other.co, 1)
         /\ ret.sig = order(self)
         /\ ret.del = order(self)
    /\ (self.co = <<Zero, One>> /\ order(other) = 0) =>
         ret.val[1].co = CTrim(<<delta(other.co[1]), sigma(other.co[1], 1)>>)

\* gen^2 times an operator with a non-constant coefficient, where sigma or
\* delta changes the coefficients
C2_Witness ==
  /\ call = "_mul_"
  /\ order(self) = 2
  /\ order(other) >= 1
  /\ ret.sig = 2
  /\ ret.val[1].co # TwistedSum(other.co, self.co, 1)

\* C7: quo_rem(A, 0) signals a division by zero for every A and returns
\* no pair.
C7_DivisionByZero ==
  (call = "quo_rem" /\ is_zero(other))
    => (ret.err = "ZeroDivisionError" /\ ret.val = <<>>)

\* the zero operator divided by the zero operator
C7_Witness ==
  /\ call = "quo_rem"
  /\ is_zero(other)
  /\ is_zero(self)
  /\ ret.err = "ZeroDivisionError"

\* C8: A / B, B nonzero, returns Q with Q*B == A when the remainder of
\* quo_rem(A, B) is zero, and raises an error, returning nothing, when it is
\* not.
C8_ExactDivision ==
  (call = "__div__" /\ ~is_zero(other)) =>
    /\ ret.err \in {"none", "ValueError"}
    /\ ret.err = "none" =>
         /\ Len(ret.val) = 1
         /\ OEq(_mul_(ret.val[1], other), self)
         /\ ret.val[1] = quo_rem(self, other, FALSE).val[1]
    /\ ret.err = "ValueError" =>
         /\ ret.val = <<>>
         /\ ~is_zero(quo_rem(self, other, FALSE).val[2])

\* an exact division by an operator of order 1 and one that raises
C8_Witness ==
  /\ call = "__div__"
  /\ order(other) = 1
  /\ order(self) = 2
  /\ ret.err = "none"

(***************************************************************************)
(* Properties of gcrd and xgcrd                                            *)
(***************************************************************************)
\* the operators x*gen, gen^2
XGen(f) == Op(<<Zero, FOfPoly(<<0, 1>>)>>, f)
Gen2(f) == Op(<<Zero, Zero, One>>, f)

\* right division of A by G leaves the remainder zero
RemainderZero(qr) == qr.err = "none" /\ is_zero(qr.val[2])
RightDivides(G, A) == RemainderZero(quo_rem(A, G, FALSE))

\* C3: xgcrd(A, B) of nonzero A, B returns (G, S, T) with S*A + T*B == G, A
\* the receiver and B the argument, under each strategy, also when
\* order(A) < order(B) and when the primitive part is returned.
C3_Bezout ==
  (call = "xgcrd" /\ pc = "done" /\ ret.err = "none" /\ Len(ret.val) = 3)
    => OEq(_add_(_mul_(ret.val[2], self), _mul_(ret.val[3], other)), ret.val[1])

\* xgcrd(gen, gen^2) over the field returns (gen, 0, 1)
C3_SwappedRun ==
  /\ call = "xgcrd"
  /\ pc = "done"
  /\ alg.field
  /\ self = Gen(TRUE)
  /\ other = Gen2(TRUE)
  /\ loop.prs = "classic"
  /\ ret.val = <<Gen(TRUE), zero(TRUE), one(TRUE)>>

C9_XgcrdTriple ==
  (call = "xgcrd" /\ pc = "done" /\ ret.err = "none") => Len(ret.val) = 3

\* xgcrd(0, gen) returns the single operator gen
C9_ZeroRun ==
  /\ call = "xgcrd"
  /\ pc = "done"
  /\ is_zero(self)
  /\ other = Gen(alg.field)
  /\ ret.val = <<other>>

\* C10: gcrd(0, B) == B and gcrd(A, 0) == A, returned with no step of a
\* remainder sequence and without normalization.
C10_GcrdOfZero ==
  (call = "gcrd" /\ pc = "done" /\ (is_zero(self) \/ is_zero(other)))
    => /\ ret.err = "none"
       /\ is_zero(self) => ret.val = <<other>>
       /\ is_zero(other) => ret.val = <<self>>
       /\ loop.steps = 0 /\ loop.fails = 0 /\ loop.prs = "none"

\* gcrd(0, x*gen): the argument comes back although it is not primitive
C10_Witness ==
  /\ call = "gcrd"
  /\ pc = "done"
  /\ is_zero(self)
  /\ other = XGen(FALSE)
  /\ primitive_part(other) # other
  /\ ret.val = <<other>>

\* a call of gcrd on nonzero operands that returned, one operand being a
\* scalar or the remainder sequence having ended in a scalar
ScalarRun ==
  /\ call = "gcrd"
  /\ pc = "done"
  /\ ret.err = "none"
  /\ ~is_zero(self)
  /\ ~is_zero(other)
  /\ Degenerate(self, other) \/ order(loop.r[1]) = 0

OnLadder == pc = "ladder" \/ (pc = "done" /\ ~LclmDegenerate(self, other))

\* C5: for nonzero A, B of orders r, s >= 1 the ladder starts at
\* t = max(r, s), raises t by exactly 1 for every empty null space and stops
\* with t <= r + s; the returned L has order(L) <= order(A) + order(B).
C5_LadderBound ==
  (call = "lclm" /\ OnLadder)
    => /\ ladder.t = Max(order(self), order(other)) + ladder.climbs
       /\ ladder.t <= order(self) + order(other)
       /\ Len(ladder.rowsA) = ladder.t - order(self) + 1
       /\ Len(ladder.rowsB) = ladder.t - order(other) + 1
       /\ pc = "done" =>
            /\ ret.err = "none"
            /\ Len(ladder.sol) > 0
            /\ order(ret.val[1]) <= order(self) + order(other)

\* a ladder that climbed twice, up to t = r + s
C5_Witness ==
  /\ call = "lclm"
  /\ pc = "done"
  /\ ladder.climbs = 2
  /\ ladder.t = order(self) + order(other)
  /\ order(ret.val[1]) = ladder.t

\* the Solver has not been called: the ladder was never set up
NoLadder ==
  /\ ladder.t = 0
  /\ ladder.climbs = 0
  /\ ladder.rowsA = <<>>
  /\ ladder.rowsB = <<>>
  /\ ladder.sol = <<>>

\* C12: lclm returns the zero operator if either operand is zero; otherwise,
\* if one operand has order 0, it returns the other operand unchanged; none
\* of these cases calls the Solver.
C12_LclmDegenerate ==
  (call = "lclm" /\ pc = "done" /\ LclmDegenerate(self, other))
    => /\ NoLadder
       /\ ret.err = "none"
       /\ ret.val = IF is_zero(self) \/ is_zero(other) THEN <<zero(self.fld)>>
                    ELSE IF order(self) = 0 THEN <<other>> ELSE <<self>>

\* lclm(x*gen, c) for a scalar c other than 1: the receiver comes back
C12_Witness ==
  /\ call = "lclm"
  /\ pc = "done"
  /\ self = XGen(alg.field)
  /\ order(other) = 0
  /\ ~is_zero(other)
  /\ ~OEq(other, one(alg.field))
  /\ ret.val = <<self>>
  /\ NoLadder

\* C6: xlclm(A, B) of nonzero A, B returns (L, U, V) with U*A == L and
\* V*B == L; the divisions L // A and L // B leave the remainder zero.
C6_XlclmCofactors ==
  (call = "xlclm" /\ pc = "done" /\ ~is_zero(self) /\ ~is_zero(other))
    => /\ ret.err = "none"
       /\ Len(ret.val) = 3
       /\ OEq(_mul_(ret.val[2], self), ret.val[1])
       /\ OEq(_mul_(ret.val[3], other), ret.val[1])
       /\ RightDivides(self, ret.val[1])
       /\ RightDivides(other, ret.val[1])

\* operands of order >= 1 whose ladder climbed, with cofactors of order >= 1
C6_Witness ==
  /\ call = "xlclm"
  /\ pc = "done"
  /\ ret.err = "none"
  /\ ladder.climbs >= 1
  /\ order(ret.val[2]) >= 1
  /\ order(ret.val[3]) >= 1
  /\ ret.val[2] # ret.val[3]

(***************************************************************************)
(* Properties of symmetric_power                                           *)
(***************************************************************************)
\* C13: symmetric_power(A, n) with n < 0 signals an error for every operator
\* A, without any call of symmetric_product or of the Solver.
C13_NegativeExponent ==
  (call = "symmetric_power" /\ sym.exp < 0)
    => /\ pc = "done"
       /\ ret.err = "TypeError"
       /\ ret.val = <<>>
       /\ sym.products = 0
       /\ sym.solves = 0

\* a negative power of an operator of order 2
C13_Witness ==
  /\ call = "symmetric_power"
  /\ sym.exp = -1
  /\ order(self) = 2
  /\ ret.err = "TypeError"

\* gen - c for the base-ring element c, in the algebra of A
GenMinus(c, f) == Op(<<FNeg(c), One>>, f)

\* C14: symmetric_power(A, 0) returns gen - c, c the generator applied once
\* to the constant 1, whatever A is: Dx - 0 in the differential case and
\* Sx - 1 in the shift case.
C14_PowerZero ==
  (call = "symmetric_power" /\ sym.exp = 0 /\ pc = "done")
    => /\ ret.err = "none"
       /\ ret.val = <<GenMinus(IF alg.kind = "diff" THEN Zero ELSE One, self.fld)>>

\* the zeroth power of a differential operator of order 2
C14_DifferentialRun ==
  /\ call = "symmetric_power"
  /\ sym.exp = 0
  /\ pc = "done"
  /\ alg.kind = "diff"
  /\ order(self) = 2
  /\ ret.val = <<GenMinus(One, self.fld)>>

(***************************************************************************)
(* Properties of symmetric_product and annihilator_of_associate            *)
(***************************************************************************)
\* the general case of symmetric_product has been entered
InTable == call = "symmetric_product" /\ sym.mat # <<>>

\* C15: in the general case of symmetric_product, a and b the orders of the
\* operands after the swap, the loop makes at most a*b push steps and
\* accumulates at most a*b + 1 rows, each of length a*b; with a*b pushes
\* made the Solver's answer is not empty, and the result has order <= a*b.
C15_TableBound ==
  InTable
    => /\ order(sym.A) >= 2 /\ order(sym.B) >= 2
       /\ sym.pushes <= order(sym.A) * order(sym.B)
       /\ Len(sym.mat) = sym.pushes + 1
       /\ sym.solves = sym.pushes + 1
       /\ \A k \in 1..Len(sym.mat) : Len(sym.mat[k]) = order(sym.A) * order(sym.B)
       /\ sym.pushes = order(sym.A) * order(sym.B) => Len(sym.sol) > 0
       /\ pc = "done" =>
            /\ ret.err = "none"
            /\ order(ret.val[1]) = sym.pushes
            /\ order(ret.val[1]) <= order(sym.A) * order(sym.B)

\* a product that needed all the a*b pushes
C15_Witness ==
  /\ InTable
  /\ pc = "done"
  /\ sym.pushes = order(sym.A) * order(sym.B)
  /\ order(ret.val[1]) = 4

\* annihilator_of_associate has entered its loop for operands with
\* order(A) >= 1
InAssoc ==
  /\ call = "annihilator_of_associate"
  /\ pc \in {"assoc", "done"}
  /\ ~is_zero(self)
  /\ ~is_zero(other)
  /\ order(self) >= 1

\* (gen^k * B) % A over the fraction field
PowerRemainder(k, B, A) ==
  __mod__(Op(GenPowTimes(k, B.co), TRUE), change_ring(A)).val[1]

\* C16: annihilator_of_associate(A, B), A and B nonzero, a = order(A) >= 1,
\* starts from B mod A and replaces the remainder by (gen*remainder) mod A
\* in every iteration; every accumulated row has length a; it makes at most
\* a iterations (a + 1 rows), and the operator returned has order <= a.
C16_AssociateBound ==
  InAssoc
    => /\ sym.pushes <= order(self)
       /\ Len(sym.mat) = sym.pushes + 1
       /\ \A k \in 1..Len(sym.mat) :
            /\ Len(sym.mat[k]) = order(self)
            /\ sym.mat[k] = coeffs(PowerRemainder(k - 1, other, self), order(self) - 1)
       /\ sym.B = PowerRemainder(sym.pushes, other, self)
       /\ sym.pushes = order(self) => Len(sym.sol) > 0
       /\ pc = "done" =>
            /\ ret.err = "none"
            /\ order(ret.val[1]) = sym.pushes
            /\ order(ret.val[1]) <= order(self)

\* an associate that needed all the a iterations, a = 2, and a remainder
\* shorter than a on the way
C16_Witness ==
  /\ InAssoc
  /\ pc = "done"
  /\ order(self) = 2
  /\ sym.pushes = 2
  /\ order(PowerRemainder(0, other, self)) < 1
  /\ order(ret.val[1]) = 2

(***************************************************************************)
(* Properties of the coefficient accessors                                 *)
(***************************************************************************)
\* C17: any write op[n] = value fails with an error and leaves the
\* coefficients of the operator unchanged: every read op[n] after it returns
\* what it returned before.
C17_WriteRefused ==
  [][call' = "__setitem__"
       => /\ ret'.err = "IndexError"
          /\ self'.co = self.co
          /\ \A n \in Indices : __getitem__(self', n) = __getitem__(self, n)]_vars

\* a write of a new value to a coefficient of an operator of order 2
C17_Witness ==
  /\ call = "__setitem__"
  /\ order(self) = 2
  /\ other.n \in 0..2
  /\ other.value # __getitem__(self, other.n)
  /\ ret.err = "IndexError"

(***************************************************************************)
(* Properties of content, primitive_part and normalize                     *)
(***************************************************************************)
\* content was called on a nonzero operator with at least two nonzero
\* coefficients over a base ring that is not a field
GcdRun ==
  /\ call = "content"
  /\ ~self.fld
  /\ Len(coefficients(self)) >= 2

\* C18 as stated: content never raises; it returns the unit for the zero
\* operator, and the unit whenever a step of the gcd computation (the
\* linear combinations, the gcd of the pair, the sorting, the final gcd)
\* fails.
C18_ContentUnitOnFailure ==
  call = "content"
    => /\ ret.err = "none"
       /\ is_zero(self) => ret.val = <<Sc(One, self.fld)>>
       /\ (GcdRun /\ other.fails # {}) => ret.val = <<Sc(One, FALSE)>>

\* C18 amended: content never raises; it returns the unit for the zero
\* operator and the unit whenever the linear combinations, the sorting or
\* the final gcd fail; when only the gcd of the pair fails, the result is
\* the gcd of the coefficients, as without any failure.
C18_ContentDegrades ==
  call = "content"
    => /\ ret.err = "none"
       /\ is_zero(self) => ret.val = <<Sc(One, self.fld)>>
       /\ (GcdRun /\ other.fails \cap {"sum", "sort", "gcd"} # {})
            => ret.val = <<Sc(One, FALSE)>>
       /\ (GcdRun /\ other.fails \subseteq {"pair"})
            => ret.val = <<Sc(FOfPoly(GcdList(coefficients(self), 1)), FALSE)>>

\* the final gcd fails on an operator whose content is not a unit
C18_Witness ==
  /\ GcdRun
  /\ other.fails = {"gcd"}
  /\ GcdList(coefficients(self), 1) # <<1>>
  /\ ret.val = <<Sc(One, FALSE)>>

\* c is a unit of the polynomial ring
IsUnit(c) == Len(c.v[1]) = 1 /\ c.v[2] = <<1>>

\* C19: normalize(normalize(A)) == normalize(A) for every operator A, and
\* primitive_part(A) has unit content for every nonzero A over a base ring
\* that is not a field.
C19_NormalForm ==
  /\ (call = "normalize")
       => /\ ret.err = "none"
          /\ normalize(ret.val[1]) = ret.val[1]
  /\ (call = "primitive_part" /\ ~self.fld /\ ~is_zero(self))
       => /\ ret.err = "none"
          /\ IsUnit(content(ret.val[1]))
          /\ IsUnit(contentUnder(ret.val[1], FALSE, {}))

\* the normal form of an operator that is neither primitive nor monic
C19_Witness ==
  /\ call = "normalize"
  /\ ~self.fld
  /\ order(self) >= 1
  /\ Len(coefficients(self)) >= 2
  /\ ~IsUnit(content(self))
  /\ leading_coefficient(self)[1][Len(leading_coefficient(self)[1])] = 2
  /\ ret.val[1] # self

(***************************************************************************)
(* Properties of the driver loop of gcrd and xgcrd                         *)
(***************************************************************************)
\* C20: in gcrd and xgcrd with no strategy supplied the first step uses
\* classic if the base ring is a field and improved otherwise; from the
\* first step that reports ok = false on, the strategy in use is primitive
\* for every later step of the call and is never switched back.
C20_StrategyFallback ==
  [][/\ (pc' = "loop" /\ loop'.asked = "default" /\ loop'.steps = 0 /\ loop'.fails = 0)
          => loop'.prs = IF alg.field THEN "classic" ELSE "improved"
     /\ (pc = "loop" /\ loop'.fails > loop.fails)
          => /\ loop.prs # "primitive"
             /\ loop'.prs = "primitive"
             /\ loop'.r = loop.r
     /\ (pc = "loop" /\ loop.fails >= 1)
          => /\ loop.prs = "primitive"
             /\ loop'.prs = "primitive"
             /\ loop'.fails = loop.fails]_vars

\* a call without a strategy whose first step, improved, reported
\* ok = false, and which went on with primitive for two steps
C20_Witness ==
  /\ call \in {"gcrd", "xgcrd"}
  /\ pc = "done"
  /\ ret.err = "none"
  /\ loop.asked = "default"
  /\ loop.fails = 1
  /\ loop.steps >= 2
  /\ loop.prs = "primitive"

(***************************************************************************)
(* Properties of the steps of the remainder sequences                      *)
(***************************************************************************)
\* the step st taken from the pair r obeys beta*r2 == alpha*r0 - q*r1, moves
\* r1 to the front and lowers the order of the second element
StepIdentity(st, r) ==
  /\ st.r[1] = r[2]
  /\ OEq(ScaleOp(st.beta, st.r[2]),
         _sub_(ScaleOp(st.alpha, r[1]), _mul_(st.q, r[2])))
  /\ order(st.r[2]) < order(r[2])

\* C21: every successful strategy step (classic, primitive, improved,
\* subresultant) maps the pair (r0, r1) to (r1, r2) and returns (quotient,
\* alpha, beta) with beta*r2 == alpha*r0 - quotient*r1 and
\* order(r2) < order(r1); classic always has alpha = beta = 1.
C21_StepIdentity ==
  [][(pc = "loop" /\ loop'.steps = loop.steps + 1)
       => /\ loop'.r = PRS(loop.prs, loop.r, loop.additional).r
          /\ StepIdentity(PRS(loop.prs, loop.r, loop.additional), loop.r)
          /\ loop.prs = "classic"
               => /\ FIsOne(PRS(loop.prs, loop.r, loop.additional).alpha.v)
                  /\ FIsOne(PRS(loop.prs, loop.r, loop.additional).beta.v)]_vars

\* gcrd(x*gen^2, x*gen) in the differential algebra over the polynomial
\* ring after its first improved step, whose fraction-free division
\* restarted: the pair is (x*gen, 0) and the step counts as successful
C21_RestartedStep ==
  /\ call = "gcrd"
  /\ pc = "loop"
  /\ alg = [kind |-> "diff", field |-> FALSE]
  /\ self = Op(<<Zero, Zero, FOfPoly(<<0, 1>>)>>, FALSE)
  /\ other = XGen(FALSE)
  /\ loop.prs = "improved"
  /\ loop.steps = 1
  /\ quo_rem(self, other, TRUE).restarts = 1
  /\ loop.r = <<other, zero(TRUE)>>

\* classic was the strategy of every step of the call: it was asked for, or
\* it was the default over a field, and no step fell back
ClassicThroughout ==
  /\ loop.asked = "classic" \/ (loop.asked = "default" /\ self.fld)
  /\ loop.fails = 0

\* C22: the driver loop of gcrd and xgcrd exits exactly when the second
\* element of the pair is zero and then returns the first element: its
\* primitive part unless classic was the strategy of every step, in which
\* case it is returned unchanged.
C22_LoopExit ==
  [][/\ (pc = "loop" /\ is_zero(loop.r[2]))
          => /\ pc' = "done"
             /\ ret'.err = "none"
             /\ loop' = loop
             /\ ret'.val[1] = IF ClassicThroughout THEN loop.r[1]
                              ELSE primitive_part(loop.r[1])
     /\ (pc = "loop" /\ ~is_zero(loop.r[2]))
          => pc' = "loop" \/ (pc' = "done" /\ ret'.err # "none")]_vars

\* a run under classic alone that ended after two steps or more with a first
\* element that is not primitive, returned as it is
C22_Witness ==
  /\ call \in {"gcrd", "xgcrd"}
  /\ pc = "done"
  /\ ret.err = "none"
  /\ loop.steps >= 2
  /\ is_zero(loop.r[2])
  /\ primitive_part(loop.r[1]) # loop.r[1]
  /\ ClassicThroughout
  /\ ret.val[1] = loop.r[1]

\* the smaller of the orders of the operands of the call
MinOrder == IF order(self) < order(other) THEN order(self) ELSE order(other)

SamePair(v, w) == Len(v) = 2 /\ Len(w) = 2 /\ OEq(v[1], w[1]) /\ OEq(v[2], w[2])

\* C24: a cancellation step of quo_rem leaves the order of the remainder
\* unchanged only under floor division in fraction-free mode; the division
\* then restarts from the operands with true division, at most once per
\* call, and the pair (Q, R) returned is the result of the exact division of
\* the same operands over the fraction field: no quotient term accumulated
\* before the restart remains in Q, and Q*B + R == A.
C24_RestartIsExact ==
  /\ (call = "quo_rem" /\ ret.err = "none") => ret.restarts = 0
  /\ (call = "quo_rem_ff" /\ ret.err = "none")
       => /\ ret.restarts <= 1
          /\ ret.restarts = 1
               => /\ ~alg.field
                  /\ SamePair(ret.val, quo_rem(self, other, FALSE).val)
                  /\ DivisionIdentity(self, other, ret.val[1], ret.val[2])

\* x*gen^2 divided fraction free by x*gen in the differential algebra: the
\* second cancellation stagnates, the division restarts, and the quotient
\* returned is not the exact quotient gen - 1/x
C24_StagnantRun ==
  /\ call = "quo_rem_ff"
  /\ alg = [kind |-> "diff", field |-> FALSE]
  /\ self = Op(<<Zero, Zero, FOfPoly(<<0, 1>>)>>, FALSE)
  /\ other = XGen(FALSE)
  /\ ret.restarts = 1
  /\ is_zero(ret.val[2])
  /\ ~OEq(ret.val[1], quo_rem(self, other, FALSE).val[1])

(***************************************************************************)
(* Properties of the recursion of symmetric_power                          *)
(***************************************************************************)
\* the exponent of the recursive call made for the exponent e >= 2
Pred(e) == IF e % 2 = 1 THEN e - 1 ELSE e \div 2

\* the exponent whose power sym.L is: the last one of the chain reached
ReachedExp ==
  IF Len(sym.stack) = Len(Chain(sym.exp)) THEN 1
  ELSE Chain(sym.exp)[Len(Chain(sym.exp)) - Len(sym.stack)]

\* symmetric_power(A, n) by the recursion, for the operators whose products
\* all return before the table: [err, val]
RECURSIVE PowerOf(_, _)
PowerTimes(L, B) ==
  IF L.err # "none" THEN L
  ELSE [err |-> ProductHead(change_ring(L.val), change_ring(B)).err,
        val |-> ProductHead(change_ring(L.val), change_ring(B)).val]
PowerSquare(L) == IF L.err # "none" THEN L ELSE PowerTimes(L, L.val)
PowerOf(A, n) ==
  IF n = 1 THEN [err |-> "none", val |-> A]
  ELSE IF n % 2 = 1 THEN PowerTimes(PowerOf(A, n - 1), A)
  ELSE PowerSquare(PowerOf(A, n \div 2))

\* C25: symmetric_power(A, n), n >= 0, follows repeated squaring and
\* terminates: n = 1 returns A itself, even n >= 2 returns
\* symmetric_product(P, P) with P = symmetric_power(A, n/2), odd n >= 3
\* returns symmetric_product(symmetric_power(A, n-1), A); every recursive
\* call has a strictly smaller exponent that is not negative, and a call
\* makes as many products as it has exponents to reach.
C25_RepeatedSquaring ==
  [][/\ (call = "symmetric_power" /\ pc = "power" /\ sym.stack # <<>>)
          => /\ Head(sym.stack) >= 2
             /\ Head(sym.stack) <= sym.exp
             /\ Pred(Head(sym.stack)) = ReachedExp
             /\ 1 <= ReachedExp /\ ReachedExp < Head(sym.stack)
             /\ sym'.products = sym.products + 1
             /\ sym.products + Len(sym.stack) = Len(Chain(sym.exp))
             /\ pc' = "table"
                  => /\ sym'.A = change_ring(sym.L)
                     /\ sym'.B = change_ring(IF Head(sym.stack) % 2 = 1 THEN self
                                             ELSE sym.L)
                     /\ sym'.stack = Tail(sym.stack)
     /\ (call = "symmetric_power" /\ pc = "power" /\ sym.stack = <<>>)
          => /\ pc' = "done"
             /\ ret'.val = <<sym.L>>
             /\ ReachedExp = sym.exp
             /\ sym.exp = 1 => (ret'.val = <<self>> /\ sym.products = 0)
             /\ sym.solves = 0
                  => /\ PowerOf(self, sym.exp).err = "none"
                     /\ ret'.val = <<PowerOf(self, sym.exp).val>>]_vars

\* a call with exponent 3 on an operator of order 2 that made its two
\* products, the first of them through the table, and returned
C25_Witness ==
  /\ call = "symmetric_power"
  /\ pc = "done"
  /\ ret.err = "none"
  /\ sym.exp = 3
  /\ order(self) = 2
  /\ sym.products = 2
  /\ sym.solves >= 2

(***************************************************************************)
(* Properties of calls that run at once                                    *)
(***************************************************************************)
\* what a call returns when it runs alone from the locals fr with the list
\* stack
RECURSIVE RunAlone(_, _)
RunAloneTurn(fr, st) == RunAlone(FrameTurn(fr, st), st.additional)
RunAlone(fr, stack) ==
  IF fr.pc = "done" THEN fr.ret
  ELSE IF is_zero(fr.r[2]) THEN FrameReturn(fr).ret
  ELSE RunAloneTurn(fr, PRS(fr.prs, fr.r, stack))

\* C26: the auxiliary stack of a gcrd/xgcrd call is created empty by that
\* call and is read and written only by the strategy steps of that call: two
\* calls interleaved in any order on the same operands and algebra return
\* what they return when run one after the other, and no call changes its
\* operands or the algebra descriptor.
C26_CallsDoNotInterfere ==
  [][/\ (call = "none" /\ call' = "pair")
          => /\ frames'.call[1].additional # frames'.call[2].additional
             /\ \A i \in 1..2 : frames'.heap[frames'.call[i].additional] = <<>>
     /\ call = "pair"
          => /\ self' = self /\ other' = other /\ alg' = alg
             /\ \A i \in 1..2 :
                  frames'.call[i] = frames.call[i]
                    => frames'.heap[frames.call[i].additional]
                         = frames.heap[frames.call[i].additional]
             /\ \A i \in 1..2 :
                  frames.call[i].pc = "done" => frames'.call[i] = frames.call[i]
             /\ \A i \in 1..2 :
                  (frames.call[i].pc = "loop" /\ frames'.call[i].pc = "done")
                    => frames'.call[i].ret
                         = RunAlone(EnterFrame(frames.call[i].name, self, other,
                                               frames.call[i].asked, 1), <<>>)]_vars

\* both calls have returned, each after two steps or more, the first of them
\* under improved and the second under subresultant, while the other was
\* in its loop with a filled stack
C26_Witness ==
  /\ call = "pair"
  /\ \A i \in 1..2 : /\ frames.call[i].pc = "done"
                     /\ frames.call[i].ret.err = "none"
                     /\ frames.call[i].steps >= 2
                     /\ Len(frames.heap[frames.call[i].additional]) > 0
  /\ frames.call[1].asked = "improved"
  /\ frames.call[2].asked = "subresultant"

(***************************************************************************)
(* The cofactors of xgcrd                                                  *)
(***************************************************************************)
\* the input pair of the call, the operand of larger order first
SortedPair(A, B) == IF order(A) < order(B) THEN <<B, A>> ELSE <<A, B>>

\* u*P0 + v*P1 over the fraction field
Combination(u, v, pair) == _add_(_mul_(u, pair[1]), _mul_(v, pair[2]))

\* the cofactors a11, a12, a21, a22 of the locals l express the pair r by
\* the input pair
CofactorsExpress(l, pair) ==
  /\ OEq(Combination(l.a[1], l.a[2], pair), l.r[1])
  /\ OEq(Combination(l.a[3], l.a[4], pair), l.r[2])

\* C27: loop invariant of xgcrd: with (P0, P1) the order-sorted input pair,
\* at every loop head a11*P0 + a12*P1 == r[0] and a21*P0 + a22*P1 == r[1]
\* over the fraction field; a failed step (ok = false) leaves r and the four
\* cofactors unchanged and changes only the current strategy.
C27_XgcrdInvariant ==
  [][/\ (call' = "xgcrd" /\ pc' = "loop")
          => CofactorsExpress(loop', SortedPair(self', other'))
     /\ (call = "xgcrd" /\ pc = "loop" /\ loop'.fails # loop.fails)
          => /\ loop'.r = loop.r
             /\ loop'.a = loop.a
             /\ loop'.steps = loop.steps
             /\ loop'.prs = "primitive"
             /\ pc' = "loop"]_vars

\* xgcrd(x*gen^2, x*gen) in the differential algebra over the polynomial
\* ring after its first improved step, whose fraction-free division
\* restarted
C27_RestartedRun ==
  /\ call = "xgcrd"
  /\ pc = "loop"
  /\ alg = [kind |-> "diff", field |-> FALSE]
  /\ self = Op(<<Zero, Zero, FOfPoly(<<0, 1>>)>>, FALSE)
  /\ other = XGen(FALSE)
  /\ loop.steps = 1
  /\ loop.fails = 0
  /\ loop.r = <<other, zero(TRUE)>>
  /\ ~CofactorsExpress(loop, SortedPair(self, other))

(***************************************************************************)
(* The ladder of lclm at a call of the Solver                              *)
(***************************************************************************)
\* the rows are op, gen*op, ..., gen^(n-1)*op, of orders order(op), ...,
\* order(op) + n - 1
IsFamily(rows, op, n, f) ==
  /\ Len(rows) = n
  /\ rows[1] = op
  /\ \A k \in 2..Len(rows) :
       /\ rows[k] = _mul_(Gen(f), rows[k - 1])
       /\ order(rows[k]) = order(op) + k - 1

\* the matrix handed to the Solver is the transpose of the padded
\* coefficient vectors, each of length t + 1
PaddedTo(rows, t, sys) ==
  /\ \A j \in 1..Len(rows) :
       /\ order(rows[j]) <= t
       /\ Len(coeffs(rows[j], t)) = t + 1
  /\ Len(sys) = t + 1
  /\ \A i \in 1..(t + 1) :
       /\ Len(sys[i]) = Len(rows)
       /\ \A j \in 1..Len(rows) : sys[i][j] = coeffs(rows[j], t)[i]

\* the entries of the null-space vector that follow the first n
RestOf(v, n) == Op(CTrim(SubSeq(v, n + 1, Len(v))), FALSE)

\* C28: invariant of the lclm ladder: at every Solver call with current
\* bound t, the A-family holds exactly t - r + 1 operators A, gen*A, ...,
\* gen^(t-r)*A and the B-family exactly t - s + 1 operators B, ...,
\* gen^(t-s)*B, every row has order <= t so that its padded coefficient
\* vector has length exactly t + 1, and the cofactor U is read from exactly
\* the first t + 1 - r entries of the null-space vector.
C28_LadderInvariant ==
  (call = "lclm" /\ OnLadder)
    => /\ ladder.A = numerator(self)
       /\ ladder.B = numerator(other)
       /\ IsFamily(ladder.rowsA, ladder.A, ladder.t - order(self) + 1, self.fld)
       /\ IsFamily(ladder.rowsB, ladder.B, ladder.t - order(other) + 1, self.fld)
       /\ PaddedTo(ladder.rowsA \o ladder.rowsB, ladder.t,
                   SysOf(ladder.rowsA \o ladder.rowsB, ladder.t))
       /\ \A v \in 1..Len(ladder.sol) :
            Len(ladder.sol[v]) = Len(ladder.rowsA) + Len(ladder.rowsB)
       /\ pc = "done"
            => /\ Len(ladder.sol) > 0
               /\ Len(ladder.sol[1]) - Len(ladder.rowsB) = ladder.t + 1 - order(self)
               /\ OEq(ret.val[1], _mul_(CofactorU, ladder.A))
               /\ OEq(_add_(_mul_(CofactorU, ladder.A),
                            _mul_(RestOf(ladder.sol[1], Len(ladder.rowsA)), ladder.B)),
                      zero(FALSE))

\* a ladder of operands of different orders that climbed and then found an
\* lclm of order t: both families have grown and rows were padded
C28_Witness ==
  /\ call = "lclm"
  /\ pc = "done"
  /\ order(self) < order(other)
  /\ ladder.climbs >= 1
  /\ Len(ladder.rowsA) >= 3
  /\ Len(ladder.rowsB) >= 2
  /\ order(ret.val[1]) = ladder.t

(***************************************************************************)
(* symmetric_product with a zero operand                                   *)
(***************************************************************************)
\* C29: symmetric_product(A, B) returns the zero operator whenever A or B is
\* the zero operator, in either argument position, without consulting the
\* product rule or the Solver.
C29_ZeroProduct ==
  (call = "symmetric_product" /\ (is_zero(self) \/ is_zero(other)))
    => /\ pc = "done"
       /\ ret.err = "none"
       /\ is_zero(ret.val[1])
       /\ sym.solves = 0
       /\ sym.pushes = 0

\* the product of x*gen with the zero operator has returned x*gen
C29_ZeroSecond ==
  /\ call = "symmetric_product"
  /\ pc = "done"
  /\ self = XGen(alg.field)
  /\ is_zero(other)
  /\ ret.err = "none"
  /\ OEq(ret.val[1], self)
  /\ sym.solves = 0

(***************************************************************************)
(* The auxiliary stack of the remainder sequences                          *)
(***************************************************************************)
\* the stack of the locals l at a loop head: empty before the first
\* successful step of improved or subresultant, and afterwards what that
\* step pushed, with the order d1 of its divisor on top; always empty under
\* classic and primitive
StackAtHead(l) ==
  /\ l.prs = "improved" => Len(l.additional) \in {0, 5}
  /\ l.prs = "subresultant" => Len(l.additional) \in {0, 2}
  /\ l.prs \in {"classic", "primitive"} => Len(l.additional) = 0
  /\ l.prs \in {"improved", "subresultant"}
       => (Len(l.additional) = 0 <=> l.steps = 0)
  /\ Len(l.additional) > 0
       => l.additional[Len(l.additional)] = order(l.r[1])

\* C30: aux-stack discipline: at every step boundary of a gcrd/xgcrd call
\* the auxiliary stack has length 0 or 5 under improved and 0 or 2 under
\* subresultant (each non-first step pops exactly what the previous
\* successful step pushed, in reverse order, so that d2 is the previous
\* step's d1), classic and primitive never touch it, and after a failed
\* improved step it stays untouched for the rest of the call: its length
\* never grows with the number of steps.
C30_StackDiscipline ==
  [][/\ pc' = "loop" => StackAtHead(loop')
     /\ (pc = "loop" /\ loop.prs = "improved" /\ loop'.steps = loop.steps + 1)
          => /\ Len(loop'.additional) = 5
             /\ loop'.additional[5] = order(loop.r[2])
             /\ Len(loop.additional) = 5
                  => Popped(loop.additional, 1) = order(loop.r[1])
     /\ (pc = "loop" /\ loop.prs = "subresultant" /\ loop'.steps = loop.steps + 1)
          => /\ Len(loop'.additional) = 2
             /\ loop'.additional[2] = order(loop.r[2])
             /\ Len(loop.additional) = 2
                  => Popped(loop.additional, 1) = order(loop.r[1])
     /\ (pc = "loop" /\ loop.prs \in {"classic", "primitive"})
          => loop'.additional = loop.additional
     /\ (pc = "loop" /\ loop'.fails > loop.fails)
          => /\ loop.prs = "improved"
             /\ loop'.additional = <<>>
     /\ (pc = "loop" /\ loop.fails >= 1) => loop'.additional = loop.additional
     /\ pc = "loop" => Len(loop'.additional) <= 5]_vars

\* a call in its loop under improved after three steps: the second and the
\* third have popped the five entries of the step before and pushed five
C30_Witness ==
  /\ call \in {"gcrd", "xgcrd"}
  /\ pc = "loop"
  /\ loop.prs = "improved"
  /\ loop.steps = 3
  /\ Len(loop.additional) = 5
  /\ loop.additional[5] = order(loop.r[1])
====
